---- MODULE Spec2Model ----
(***************************************************************************)
(* cliedit: the viewport geometry (line wrapping, visual rows, cursor      *)
(* movement, scrolling), the render pass and the double-buffered           *)
(* ScreenBuffer, as state machines.                                        *)
(*                                                                         *)
(* A line of text is a sequence of one-character strings.  Line and column *)
(* indices are 0-based as in the source; a TLA+ sequence is 1-based, so    *)
(* line i of the document is lines[i + 1].                                 *)
(***************************************************************************)
EXTENDS Integers, Sequences, FiniteSets, TLC

VARIABLES
    \* ---- CliEditor (editor.ts) ----
    lines,          \* this.lines
    cursorX,        \* this.cursorX
    cursorY,        \* this.cursorY
    rowOffset,      \* this.rowOffset (a global visual row index)
    screenRows,     \* this.screenRows
    screenCols,     \* this.screenCols
    mode,           \* this.mode
    goToLineQuery,  \* this.goToLineQuery (a sequence of digits)
    isExiting,      \* this.isExiting
    isDirty,        \* this.isDirty
    quitConfirm,    \* this.quitConfirm
    quitTimer,      \* the 3 s timer of handleCtrlQ is running
    pendingCuts,    \* cutLine calls suspended at `await setClipboard(lineToCut)`
    searchQuery,    \* this.searchQuery (a sequence of characters)
    searchResults,  \* this.searchResults (a sequence of [y, x])
    searchResultIndex, \* this.searchResultIndex
    selectionAnchor,   \* this.selectionAnchor
    searchResultMap,   \* this.searchResultMap (a set of [y, start, end])
    pendingSaves,   \* handleSave calls suspended at `await this.saveFile()`: the
                    \* content each is writing to the file
    settled,        \* the values this.resolvePromise was called with
    stored,         \* the contents fs.writeFile has stored in the file, oldest
                    \* first
    undoHistory,    \* HistoryManager.undoHistory, oldest first (followed by the
    redoHistory,    \* specifications of undo and redo only), .redoHistory
    historyLimit,   \* HistoryManager.historyLimit
    syntaxCache,    \* this.syntaxCache: one entry per cached line index
    workerReplies,  \* the requests posted to the syntax worker and not yet
                    \* answered, oldest first
    isCleanedUp,    \* this.isCleanedUp
    frame,          \* what the last render pass drew, one record per screen row
    physCursor,     \* the physical cursor position the last render pass emitted
    renderedCursor, \* the cursor the last render pass was entered with
    op,             \* the operation that produced this state, with its argument
    \* ---- ScreenBuffer (screen_buffer.ts) ----
    sbRows,         \* this.rows
    sbCols,         \* this.cols
    currentBuffer,  \* this.currentBuffer: the committed grid
    nextBuffer,     \* this.nextBuffer: the pending grid
    forceRedraw,    \* this.forceRedraw
    output,         \* the stream the last flush wrote to stdout
    term,           \* the terminal: what each cell shows
    committedBefore \* currentBuffer and forceRedraw when the last flush began

editorVars == <<lines, cursorX, cursorY, rowOffset, screenRows, screenCols,
                mode, goToLineQuery, isExiting, isDirty, quitConfirm, quitTimer,
                pendingCuts, frame, physCursor, renderedCursor>>
bufferVars == <<sbRows, sbCols, currentBuffer, nextBuffer, forceRedraw, output,
                term, committedBefore>>
overlayVars == <<selectionAnchor, searchResultMap>>
promiseVars == <<pendingSaves, settled, stored>>
historyVars == <<undoHistory, redoHistory, historyLimit>>
sessionVars == <<searchQuery, searchResults, searchResultIndex, overlayVars,
                 promiseVars, historyVars, syntaxCache, workerReplies, isCleanedUp>>
vars == <<editorVars, sessionVars, op, bufferVars>>

(***************************************************************************)
(* Bounds of the model.                                                    *)
(***************************************************************************)
MaxLines == 2       \* most lines a document holds
MaxLen == 4         \* most characters a line holds
MaxOffset == 3      \* largest rowOffset an arbitrary viewport starts from
MaxInFlight == 1    \* most clipboard commands in flight at once
MaxQuery == 1       \* most digits typed into the Go-to-Line prompt
MaxTextLen == 2     \* longest text handed to putString
MaxSearch == 1      \* longest search query typed
MaxBracketLen == 3  \* longest line of a document of brackets
MaxWordLen == 4     \* longest line of a document of words
MaxStray == 2       \* how far outside the document a cursor is taken
MaxStyleLen == 2    \* longest line of a document drawn with styles
MaxPosted == 3      \* most requests waiting for the syntax worker
MaxCacheLen == 1    \* most characters of a line the cache session starts from, and of a document it types into
MaxSaves == 2       \* most saves in flight at once
MaxSaveLen == 2     \* longest line typed while a save is in flight
MaxHistory == 3     \* most states the two stacks of an editor hold together
MaxLimit == 2       \* largest historyLimit a HistoryManager is made with
MaxSelectLen == 2   \* longest line of a document with a selection
MaxCalls == 6       \* most calls made on one HistoryManager

(***************************************************************************)
(* Arithmetic of the source.                                               *)
(***************************************************************************)
Max(a, b) == IF a >= b THEN a ELSE b
Min(a, b) == IF a <= b THEN a ELSE b
\* Math.ceil(a / b) for a >= 0 and b >= 1
Ceil(a, b) == (a + b - 1) \div b
\* Math.floor(a / b) for b >= 1
Floor(a, b) == a \div b

RECURSIVE SumTo(_, _)
\* f[0] + ... + f[n - 1]
SumTo(f, n) == IF n <= 0 THEN 0 ELSE SumTo(f, n - 1) + f[n - 1]

(***************************************************************************)
(* Geometry: editor.rendering.ts and editor.navigation.ts.                 *)
(***************************************************************************)
gutterWidth == 5

\* const contentWidth = Math.max(1, this.screenCols - this.gutterWidth)
ContentWidth(cols) == Max(1, cols - gutterWidth)

\* a variant of getLineVisualHeight that counts a started row even when the
\* line ends exactly at a row boundary
GetLineVisualHeight_extraRow(ls, cols, lineIndex) ==
    IF lineIndex < 0 \/ lineIndex >= Len(ls) THEN 1
    ELSE Floor(Len(ls[lineIndex + 1]), ContentWidth(cols)) + 1

\* getLineVisualHeight(lineIndex)
GetLineVisualHeight(ls, cols, lineIndex) ==
    IF lineIndex < 0 \/ lineIndex >= Len(ls) THEN 1
    ELSE IF Len(ls[lineIndex + 1]) = 0 THEN 1
    ELSE Ceil(Len(ls[lineIndex + 1]), ContentWidth(cols))

\* findCurrentVisualRowIndex()
FindCurrentVisualRowIndex(ls, cols, cx, cy) ==
    SumTo([i \in 0..(cy - 1) |-> GetLineVisualHeight(ls, cols, i)], cy)
        + Floor(cx, ContentWidth(cols))

\* a variant of getLogicalFromVisual that takes every line to be one row high
GetLogicalFromVisual_noWrap(ls, cols, visualY) ==
    [logicalY |-> Min(visualY, Len(ls) - 1), visualYOffset |-> 0]

RECURSIVE LogicalWalk(_, _, _, _, _)
\* the loop of getLogicalFromVisual, from line i with currentVisualY rows passed
LogicalWalk(ls, cols, visualY, i, currentVisualY) ==
    IF i >= Len(ls)
    THEN [logicalY |-> Len(ls) - 1,
          visualYOffset |-> Max(0, GetLineVisualHeight(ls, cols, Len(ls) - 1) - 1)]
    ELSE IF currentVisualY + GetLineVisualHeight(ls, cols, i) > visualY
         THEN [logicalY |-> i, visualYOffset |-> visualY - currentVisualY]
         ELSE LogicalWalk(ls, cols, visualY, i + 1,
                          currentVisualY + GetLineVisualHeight(ls, cols, i))

\* getLogicalFromVisual(visualY)
GetLogicalFromVisual(ls, cols, visualY) == LogicalWalk(ls, cols, visualY, 0, 0)

\* a variant of moveCursorLogically that stays on its line
MoveCursorLogically_sameLine(ls, cx, cy, dx) ==
    IF dx = -1 /\ cx > 0 THEN [x |-> cx - 1, y |-> cy]
    ELSE IF dx = 1 /\ cx < Len(ls[cy + 1]) THEN [x |-> cx + 1, y |-> cy]
    ELSE [x |-> cx, y |-> cy]

\* moveCursorLogically(dx): the new cursor
MoveCursorLogically(ls, cx, cy, dx) ==
    IF dx = -1
    THEN IF cx > 0 THEN [x |-> cx - 1, y |-> cy]
         ELSE IF cy > 0 THEN [x |-> Len(ls[cy]), y |-> cy - 1]
         ELSE [x |-> cx, y |-> cy]
    ELSE IF dx = 1
    THEN IF cx < Len(ls[cy + 1]) THEN [x |-> cx + 1, y |-> cy]
         ELSE IF cy < Len(ls) - 1 THEN [x |-> 0, y |-> cy + 1]
         ELSE [x |-> cx, y |-> cy]
    ELSE [x |-> cx, y |-> cy]

\* a variant of moveCursorVisually that drops the visual column offset
MoveCursorVisually_chunkStart(ls, cols, cx, cy, dy) ==
    LET currentVisualRow == FindCurrentVisualRowIndex(ls, cols, cx, cy)
        targetPos == GetLogicalFromVisual(ls, cols, Max(0, currentVisualRow + dy))
    IN  IF dy < 0 /\ currentVisualRow = 0 THEN [x |-> cx, y |-> cy]
        ELSE [x |-> targetPos.visualYOffset * ContentWidth(cols),
              y |-> targetPos.logicalY]

\* a variant of moveCursorVisually that does not clamp the column to the
\* target line's length
MoveCursorVisually_noClamp(ls, cols, cx, cy, dy) ==
    LET currentVisualRow == FindCurrentVisualRowIndex(ls, cols, cx, cy)
        targetPos == GetLogicalFromVisual(ls, cols, Max(0, currentVisualRow + dy))
    IN  IF dy < 0 /\ currentVisualRow = 0 THEN [x |-> cx, y |-> cy]
        ELSE [x |-> targetPos.visualYOffset * ContentWidth(cols)
                        + (cx % ContentWidth(cols)),
              y |-> targetPos.logicalY]

\* moveCursorVisually(dy): the new cursor
MoveCursorVisually(ls, cols, cx, cy, dy) ==
    LET currentVisualRow == FindCurrentVisualRowIndex(ls, cols, cx, cy)
        targetVisualRow == Max(0, currentVisualRow + dy)
        targetPos == GetLogicalFromVisual(ls, cols, targetVisualRow)
        contentWidth == ContentWidth(cols)
        currentVisualXOffset == cx % contentWidth
        targetChunkStart == targetPos.visualYOffset * contentWidth
        lineLength == Len(ls[targetPos.logicalY + 1])
    IN  IF dy < 0 /\ currentVisualRow = 0 THEN [x |-> cx, y |-> cy]
        ELSE IF targetPos.logicalY > Len(ls) - 1
        THEN [x |-> Len(ls[Len(ls)]), y |-> Len(ls) - 1]
        ELSE [x |-> Min(targetChunkStart + currentVisualXOffset, lineLength),
              y |-> targetPos.logicalY]

\* findVisualRowStart()
FindVisualRowStart(cols, cx) ==
    Floor(cx, ContentWidth(cols)) * ContentWidth(cols)

\* findVisualRowEnd()
FindVisualRowEnd(ls, cols, cx, cy) ==
    Min(Len(ls[cy + 1]), Floor(cx, ContentWidth(cols)) * ContentWidth(cols)
                            + ContentWidth(cols))

\* a variant of adjustCursorPosition that measures the line the cursor came
\* from
AdjustCursorPosition_staleLine(ls, cx, cy) ==
    LET y0 == IF cy < 0 THEN 0 ELSE cy
        y1 == IF y0 >= Len(ls) THEN Max(0, Len(ls) - 1) ELSE y0
        lineLength == IF y0 < Len(ls) THEN Len(ls[y0 + 1]) ELSE 0
        x0 == IF cx < 0 THEN 0 ELSE cx
    IN  [x |-> IF x0 > lineLength THEN lineLength ELSE x0, y |-> y1]

\* adjustCursorPosition(): the clamped cursor
AdjustCursorPosition(ls, cx, cy) ==
    LET y0 == IF cy < 0 THEN 0 ELSE cy
        y1 == IF y0 >= Len(ls) THEN Max(0, Len(ls) - 1) ELSE y0
        lineLength == IF y1 < Len(ls) THEN Len(ls[y1 + 1]) ELSE 0
        x0 == IF cx < 0 THEN 0 ELSE cx
    IN  [x |-> IF x0 > lineLength THEN lineLength ELSE x0, y |-> y1]

\* a variant of scroll that follows a cursor below the window one row per
\* call
Scroll_oneRow(currentVisualRow, off, rows) ==
    LET up == IF currentVisualRow < off THEN currentVisualRow ELSE off
    IN  IF currentVisualRow >= up + rows THEN up + 1 ELSE up

\* a variant of scroll that snaps the window down so that the cursor's row
\* becomes the top row
Scroll_toTop(currentVisualRow, off, rows) ==
    IF currentVisualRow < off \/ currentVisualRow >= off + rows
    THEN currentVisualRow ELSE off

\* scroll(): the new rowOffset, given the cursor's visual row
Scroll(currentVisualRow, off, rows) ==
    LET up == IF currentVisualRow < off THEN currentVisualRow ELSE off
    IN  IF currentVisualRow >= up + rows THEN currentVisualRow - rows + 1 ELSE up

(***************************************************************************)
(* The render pass: editor.rendering.ts, render().                         *)
(***************************************************************************)
screenStartRow == 1

RECURSIVE DecimalLength(_)
\* the length of `${n}`
DecimalLength(n) == IF n < 10 THEN 1 ELSE 1 + DecimalLength(n \div 10)

\* the length of the gutter string of a row of line logicalY:
\* `${logicalY + 1}`.padStart(gutterWidth - 2, ' ') + ' | ', or the blank
\* ' '.padStart(gutterWidth - 2, ' ') + ' | ' of a continuation row
GutterLength(logicalY, v) ==
    (IF v = 0 THEN Max(gutterWidth - 2, DecimalLength(logicalY + 1))
     ELSE Max(gutterWidth - 2, 1)) + 3

\* a variant of the chunk computation that does not stop at the line's end
TextRow_fullChunk(ls, cols, cx, cy, logicalY, v) ==
    [kind |-> "text", logicalY |-> logicalY, v |-> v,
     chunkStart |-> v * ContentWidth(cols),
     chunkEnd |-> v * ContentWidth(cols) + ContentWidth(cols),
     gutter |-> IF v = 0 THEN logicalY + 1 ELSE 0,
     textCol |-> GutterLength(logicalY, v) + 1,
     caretCol |-> -1]

\* one drawn screen row: a chunk of a logical line, or the filler glyph
TextRow(ls, cols, cx, cy, logicalY, v) ==
    LET contentWidth == ContentWidth(cols)
        line == ls[logicalY + 1]
        chunkStart == v * contentWidth
        chunkEnd == Min(chunkStart + contentWidth, Len(line))
    IN  [kind |-> "text",
         logicalY |-> logicalY,
         v |-> v,
         chunkStart |-> chunkStart,
         chunkEnd |-> chunkEnd,
         \* the line number is drawn on the first visual row of the line only
         gutter |-> IF v = 0 THEN logicalY + 1 ELSE 0,
         \* the terminal column (1-based) of the first character of the chunk
         textCol |-> GutterLength(logicalY, v) + 1,
         \* the content column drawn as the caret: the character at the cursor,
         \* or the synthetic cell after the last chunk when the cursor is at
         \* the end of the line
         caretCol |-> IF logicalY = cy /\ cx >= chunkStart /\ cx < chunkEnd
                      THEN cx - chunkStart
                      ELSE IF logicalY = cy /\ cx = Len(line) /\ chunkEnd = Len(line)
                      THEN chunkEnd - chunkStart
                      ELSE -1]

FillerRow ==
    [kind |-> "filler", logicalY |-> -1, v |-> -1, chunkStart |-> -1,
     chunkEnd |-> -1, gutter |-> 0, textCol |-> -1, caretCol |-> -1]

RECURSIVE RenderLoop(_, _, _, _, _, _, _, _)
\* the render loop: `rendered` holds the rows drawn so far
RenderLoop(ls, cols, rows, cx, cy, logicalY, v, rendered) ==
    IF Len(rendered) >= rows THEN rendered
    ELSE IF logicalY >= Len(ls)
    THEN RenderLoop(ls, cols, rows, cx, cy, logicalY, v, Append(rendered, FillerRow))
    ELSE IF v < GetLineVisualHeight(ls, cols, logicalY)
    THEN RenderLoop(ls, cols, rows, cx, cy, logicalY, v + 1,
                    Append(rendered, TextRow(ls, cols, cx, cy, logicalY, v)))
    ELSE RenderLoop(ls, cols, rows, cx, cy, logicalY + 1, 0, rendered)

\* the rows render draws, top to bottom, for a viewport starting at off
RenderRows(ls, cols, rows, off, cx, cy) ==
    LET startPos == GetLogicalFromVisual(ls, cols, off)
    IN  RenderLoop(ls, cols, rows, cx, cy, startPos.logicalY,
                   startPos.visualYOffset, <<>>)

\* the physical cursor position render emits (screen row, content column)
PhysicalCursor(ls, cols, rows, off, cx, cy) ==
    LET relativeVisualRow == FindCurrentVisualRowIndex(ls, cols, cx, cy) - off
    IN  IF relativeVisualRow >= 0 /\ relativeVisualRow < rows
        THEN [shown |-> TRUE, row |-> relativeVisualRow,
              col |-> cx % ContentWidth(cols),
              \* the terminal row and column (1-based) of the sequence
              displayY |-> screenStartRow + relativeVisualRow,
              displayX |-> (cx % ContentWidth(cols)) + gutterWidth + 1]
        ELSE [shown |-> FALSE, row |-> -1, col |-> -1,
              displayY |-> -1, displayX |-> -1]

NoCursor == [shown |-> FALSE, row |-> -1, col |-> -1,
             displayY |-> -1, displayX |-> -1]

\* render() on a state (ls, cols, rows, off, cx, cy): the state it leaves and
\* what it draws
RenderResult(ls, cols, rows, off, cx, cy) ==
    LET c == AdjustCursorPosition(ls, cx, cy)
        newOff == Scroll(FindCurrentVisualRowIndex(ls, cols, c.x, c.y), off, rows)
    IN  [x |-> c.x, y |-> c.y, rowOffset |-> newOff,
         frame |-> RenderRows(ls, cols, rows, newOff, c.x, c.y),
         physCursor |-> PhysicalCursor(ls, cols, rows, newOff, c.x, c.y)]

(***************************************************************************)
(* Editing: editor.editing.ts and editor.clipboard.ts.                     *)
(***************************************************************************)
\* line.slice(from, to) for 0 <= from
Slice(line, from, to) == SubSeq(line, from + 1, Min(to, Len(line)))

\* lines.splice(i, 1)
RemoveLine(ls, i) ==
    [k \in 1..(Len(ls) - 1) |-> IF k <= i THEN ls[k] ELSE ls[k + 1]]

\* lines.splice(i, 0, line)
InsertLine(ls, i, line) ==
    [k \in 1..(Len(ls) + 1) |->
        IF k <= i THEN ls[k] ELSE IF k = i + 1 THEN line ELSE ls[k - 1]]

PAIR_MAP ==
    [c \in {"(", "[", "{", "'", "\""} |->
        CASE c = "(" -> ")" [] c = "[" -> "]" [] c = "{" -> "}"
          [] c = "'" -> "'" [] OTHER -> "\""]

RECURSIVE LeadingSpaces(_)
\* the length of the match of /^(\s*)/
LeadingSpaces(line) ==
    IF Len(line) > 0 /\ line[1] = " " THEN 1 + LeadingSpaces(Tail(line)) ELSE 0

\* insertCharacter(char), char a string of one or more characters
InsertCharacter(ls, cx, cy, chars) ==
    LET line == ls[cy + 1]
    IN  [lines |-> [ls EXCEPT ![cy + 1] =
                        Slice(line, 0, cx) \o chars \o Slice(line, cx, Len(line))],
         x |-> cx + Len(chars), y |-> cy]

\* handleCharacterKey(ch) with no selection
HandleCharacterKey(ls, cx, cy, ch) ==
    LET line == ls[cy + 1]
        typedOver == ch \in {")", "]", "}", "'", "\""} /\ cx < Len(line)
                     /\ line[cx + 1] = ch
    IN  IF typedOver THEN [lines |-> ls, x |-> cx + 1, y |-> cy]
        ELSE IF ch \in DOMAIN PAIR_MAP
        THEN \* handleAutoPair: insert the pair, cursor between the two
             LET r == InsertCharacter(ls, cx, cy, <<ch, PAIR_MAP[ch]>>)
             IN  [r EXCEPT !.x = r.x - 1]
        ELSE InsertCharacter(ls, cx, cy, <<ch>>)

\* insertNewLine()
InsertNewLine(ls, cx, cy) ==
    LET line == ls[cy + 1]
        indent == SubSeq(line, 1, LeadingSpaces(line))
        remainder == Slice(line, cx, Len(line))
    IN  [lines |-> InsertLine([ls EXCEPT ![cy + 1] = Slice(line, 0, cx)],
                              cy + 1, indent \o remainder),
         x |-> Len(indent), y |-> cy + 1]

\* deleteBackward()
DeleteBackward(ls, cx, cy) ==
    IF cx > 0
    THEN [lines |-> [ls EXCEPT ![cy + 1] =
                        Slice(@, 0, cx - 1) \o Slice(@, cx, Len(@))],
          x |-> cx - 1, y |-> cy]
    ELSE IF cy > 0
    THEN [lines |-> RemoveLine([ls EXCEPT ![cy] = ls[cy] \o ls[cy + 1]], cy),
          x |-> Len(ls[cy]), y |-> cy - 1]
    ELSE [lines |-> ls, x |-> cx, y |-> cy]

\* the BACKSPACE case of handleEditKeys with no selection
Backspace(ls, cx, cy) ==
    LET line == ls[cy + 1]
        pairAround == cx >= 1 /\ cx < Len(line) /\ line[cx] \in DOMAIN PAIR_MAP
                      /\ PAIR_MAP[line[cx]] = line[cx + 1]
    IN  IF pairAround
        THEN [lines |-> [ls EXCEPT ![cy + 1] =
                            Slice(line, 0, cx - 1) \o Slice(line, cx + 1, Len(line))],
              x |-> cx - 1, y |-> cy]
        ELSE DeleteBackward(ls, cx, cy)

\* deleteForward()
DeleteForward(ls, cx, cy) ==
    LET line == ls[cy + 1]
    IN  IF cx < Len(line)
        THEN [lines |-> [ls EXCEPT ![cy + 1] =
                            Slice(line, 0, cx) \o Slice(line, cx + 1, Len(line))],
              x |-> cx, y |-> cy]
        ELSE IF cy < Len(ls) - 1
        THEN [lines |-> RemoveLine([ls EXCEPT ![cy + 1] = line \o ls[cy + 2]], cy + 1),
              x |-> cx, y |-> cy]
        ELSE [lines |-> ls, x |-> cx, y |-> cy]

\* cutLine() may start: the document is not the single empty line
CutLineStarts(ls) == Len(ls) > 1 \/ (Len(ls) = 1 /\ ls[1] # <<>>)

\* cutLine() after `await setClipboard(lineToCut)`: the line at the cursor of
\* that moment is removed
CutLineResume(ls, cx, cy) ==
    LET removed == IF cy < Len(ls) THEN RemoveLine(ls, cy) ELSE ls
        y1 == IF cy >= Len(removed) THEN Max(0, Len(removed) - 1) ELSE cy
    IN  [lines |-> IF Len(removed) = 0 THEN << <<>> >> ELSE removed,
         x |-> 0, y |-> y1]

\* a variant of jumpToLine that puts the target on the top row
JumpToLine_noCentre(ls, cols, rows, lineNumber) ==
    LET y == Max(0, Min(lineNumber - 1, Len(ls) - 1))
    IN  [x |-> 0, y |-> y,
         rowOffset |-> FindCurrentVisualRowIndex(ls, cols, 0, y)]

\* jumpToLine(lineNumber): cursor and rowOffset
JumpToLine(ls, cols, rows, lineNumber) ==
    LET y == Max(0, Min(lineNumber - 1, Len(ls) - 1))
    IN  [x |-> 0, y |-> y,
         rowOffset |-> Max(0, FindCurrentVisualRowIndex(ls, cols, 0, y)
                               - Floor(rows, 2))]

RECURSIVE ParseInt(_)
\* parseInt(query, 10) of a sequence of digits; -1 stands for NaN
ParseInt(q) ==
    IF Len(q) = 0 THEN -1
    ELSE IF Len(q) = 1 THEN q[1]
    ELSE ParseInt(SubSeq(q, 1, Len(q) - 1)) * 10 + q[Len(q)]


(***************************************************************************)
(* Word movement: editor.navigation.ts, moveCursorByWord().                *)
(***************************************************************************)
RECURSIVE SkipRight(_, _, _)
\* while (i < line.length && (line[i] === ' ') === spaces) i++
SkipRight(line, i, spaces) ==
    IF i < Len(line) /\ ((line[i + 1] = " ") = spaces)
    THEN SkipRight(line, i + 1, spaces) ELSE i

\* line[i]: undefined outside the line
StringAt(line, i) == IF i >= 0 /\ i < Len(line) THEN line[i + 1] ELSE "undefined"

RECURSIVE SkipLeftSpaces(_, _)
\* while (i > 0 && line[i] === ' ') i--
SkipLeftSpaces(line, i) ==
    IF i > 0 /\ StringAt(line, i) = " " THEN SkipLeftSpaces(line, i - 1) ELSE i

RECURSIVE SkipLeftWord(_, _)
\* while (i > 0 && line[i - 1] !== ' ') i--
SkipLeftWord(line, i) ==
    IF i > 0 /\ StringAt(line, i - 1) # " " THEN SkipLeftWord(line, i - 1) ELSE i

\* a variant of moveCursorByWord that stops at the end of the word on the way
\* right
MoveCursorByWord_wordEnd(ls, cx, cy, direction) ==
    LET line == ls[cy + 1]
    IN  IF direction = "left"
        THEN IF cx = 0
             THEN IF cy > 0 THEN [x |-> Len(ls[cy]), y |-> cy - 1]
                  ELSE [x |-> cx, y |-> cy]
             ELSE [x |-> SkipLeftWord(line, SkipLeftSpaces(line, cx - 1)), y |-> cy]
        ELSE IF cx >= Len(line)
             THEN IF cy < Len(ls) - 1 THEN [x |-> 0, y |-> cy + 1]
                  ELSE [x |-> cx, y |-> cy]
             ELSE [x |-> SkipRight(line, cx, FALSE), y |-> cy]

\* moveCursorByWord(direction): the new cursor
MoveCursorByWord(ls, cx, cy, direction) ==
    LET line == ls[cy + 1]
    IN  IF direction = "left"
        THEN IF cx = 0
             THEN IF cy > 0 THEN [x |-> Len(ls[cy]), y |-> cy - 1]
                  ELSE [x |-> cx, y |-> cy]
             ELSE [x |-> SkipLeftWord(line, SkipLeftSpaces(line, cx - 1)), y |-> cy]
        ELSE IF cx >= Len(line)
             THEN IF cy < Len(ls) - 1 THEN [x |-> 0, y |-> cy + 1]
                  ELSE [x |-> cx, y |-> cy]
             ELSE [x |-> SkipRight(line, SkipRight(line, cx, FALSE), TRUE), y |-> cy]

(***************************************************************************)
(* The navigation functions called with a cursor outside the document:     *)
(* this.lines[i] is undefined outside the document, and reading a property *)
(* of undefined raises a TypeError.  An outcome is the cursor the call     *)
(* leaves and whether it raised.                                           *)
(***************************************************************************)
Undefined(ls, i) == i < 0 \/ i >= Len(ls)
Threw(cx, cy) == [raised |-> TRUE, x |-> cx, y |-> cy]
Returned(c) == [raised |-> FALSE, x |-> c.x, y |-> c.y]

\* moveCursorLogically(dx): this.lines[this.cursorY].length is read after
\* cursorY-- on the way left, and first of all on the way right
TryMoveCursorLogically(ls, cx, cy, dx) ==
    IF dx = -1 /\ cx <= 0 /\ cy > 0 /\ Undefined(ls, cy - 1) THEN Threw(cx, cy - 1)
    ELSE IF dx = 1 /\ Undefined(ls, cy) THEN Threw(cx, cy)
    ELSE Returned(MoveCursorLogically(ls, cx, cy, dx))

\* findVisualRowEnd(): reads this.lines[this.cursorY].length
TryFindVisualRowEnd(ls, cols, cx, cy) ==
    IF Undefined(ls, cy) THEN [raised |-> TRUE, value |-> 0]
    ELSE [raised |-> FALSE, value |-> FindVisualRowEnd(ls, cols, cx, cy)]

\* moveCursorByWord(direction): line is this.lines[this.cursorY]; on the way
\* left line[i] is read only when i > 0, on the way right line.length is read
\* first of all
TryMoveCursorByWord(ls, cx, cy, direction) ==
    IF direction = "left"
    THEN IF cx = 0
         THEN IF cy > 0 /\ Undefined(ls, cy - 1) THEN Threw(cx, cy - 1)
              ELSE Returned(MoveCursorByWord(ls, cx, cy, direction))
         ELSE IF Undefined(ls, cy)
              THEN IF cx - 1 > 0 THEN Threw(cx, cy) ELSE Returned([x |-> 0, y |-> cy])
              ELSE Returned(MoveCursorByWord(ls, cx, cy, direction))
    ELSE IF Undefined(ls, cy) THEN Threw(cx, cy)
         ELSE Returned(MoveCursorByWord(ls, cx, cy, direction))

(***************************************************************************)
(* Bracket matching: editor.navigation.ts, matchBracket().                 *)
(***************************************************************************)
\* pairs and revPairs; "" stands for undefined
Pairs(c) == IF c = "(" THEN ")" ELSE IF c = "[" THEN "]" ELSE IF c = "{" THEN "}" ELSE ""
RevPairs(c) == IF c = ")" THEN "(" ELSE IF c = "]" THEN "[" ELSE IF c = "}" THEN "{" ELSE ""

\* a variant of the depth counter that does not count nested brackets
DepthStep_noNesting(c, char, other, depth) ==
    IF c = other THEN depth - 1 ELSE depth

\* the depth counter after the character c: char is the bracket under the
\* cursor, other its partner
DepthStep(c, char, other, depth) ==
    IF c = char THEN depth + 1
    ELSE IF c = other THEN depth - 1
    ELSE depth

NoMatch == [found |-> FALSE, x |-> -1, y |-> -1]

RECURSIVE ScanForward(_, _, _, _, _)
\* the forward loops of matchBracket from position (y, x) on
ScanForward(ls, char, y, x, depth) ==
    IF y >= Len(ls) THEN NoMatch
    ELSE IF x >= Len(ls[y + 1]) THEN ScanForward(ls, char, y + 1, 0, depth)
    ELSE LET d == DepthStep(ls[y + 1][x + 1], char, Pairs(char), depth)
         IN  IF d = 0 THEN [found |-> TRUE, x |-> x, y |-> y]
             ELSE ScanForward(ls, char, y, x + 1, d)

RECURSIVE ScanBackward(_, _, _, _, _)
\* the backward loops of matchBracket from position (y, x) on
ScanBackward(ls, char, y, x, depth) ==
    IF y < 0 THEN NoMatch
    ELSE IF x < 0
    THEN IF y = 0 THEN NoMatch
         ELSE ScanBackward(ls, char, y - 1, Len(ls[y]) - 1, depth)
    ELSE LET d == DepthStep(ls[y + 1][x + 1], char, RevPairs(char), depth)
         IN  IF d = 0 THEN [found |-> TRUE, x |-> x, y |-> y]
             ELSE ScanBackward(ls, char, y, x - 1, d)

\* matchBracket(): the match, if any; line[cursorX] is undefined at the end of
\* the line
MatchBracket(ls, cx, cy) ==
    LET line == ls[cy + 1]
        char == IF cx < Len(line) THEN line[cx + 1] ELSE ""
    IN  IF Pairs(char) # "" THEN ScanForward(ls, char, cy, cx + 1, 1)
        ELSE IF RevPairs(char) # "" THEN ScanBackward(ls, char, cy, cx - 1, 1)
        ELSE NoMatch

\* matchBracket() called with any cursor: line[this.cursorX] is read first of
\* all
TryMatchBracket(ls, cx, cy) ==
    IF Undefined(ls, cy) THEN Threw(cx, cy)
    ELSE LET m == MatchBracket(ls, cx, cy)
         IN  IF m.found THEN Returned(m) ELSE Returned([x |-> cx, y |-> cy])

(***************************************************************************)
(* Search: editor.search.ts.                                               *)
(***************************************************************************)
\* line.indexOf(query, from): the first index >= from at which query occurs,
\* or -1
IndexOf(line, query, from) ==
    LET hits == {i \in Max(0, from)..(Len(line) - Len(query)) :
                    SubSeq(line, i + 1, i + Len(query)) = query}
    IN  IF hits = {} THEN -1 ELSE CHOOSE i \in hits : \A j \in hits : i <= j

RECURSIVE LineMatches(_, _, _, _)
\* the while loop of executeSearch on line y, after the match at index
LineMatches(line, y, query, index) ==
    LET next == IndexOf(line, query, index + 1)
    IN  IF next = -1 THEN <<>>
        ELSE <<[y |-> y, x |-> next]>> \o LineMatches(line, y, query, next)

RECURSIVE SearchFrom(_, _, _)
\* the for loop of executeSearch from line y on
SearchFrom(ls, query, y) ==
    IF y >= Len(ls) THEN <<>>
    ELSE LineMatches(ls[y + 1], y, query, -1) \o SearchFrom(ls, query, y + 1)

\* executeSearch(): the new searchResults
ExecuteSearch(ls, query) == IF query = <<>> THEN <<>> ELSE SearchFrom(ls, query, 0)

\* jumpToResult(result): cursor and rowOffset
JumpToResult(ls, cols, rows, result) ==
    [x |-> result.x, y |-> result.y,
     rowOffset |-> Max(0, FindCurrentVisualRowIndex(ls, cols, result.x, result.y)
                           - Floor(rows, 2))]

\* findNext() in the find-only flow (replaceQuery === null): mode, search
\* state, cursor and rowOffset
FindNext(ls, cols, rows, off, cx, cy, query, results, index) ==
    LET stay == [x |-> cx, y |-> cy, rowOffset |-> off]
        found == IF results = <<>> /\ index = -1
                 THEN ExecuteSearch(ls, query) ELSE results
        index0 == IF results = <<>> /\ index = -1 THEN -1 ELSE index
        index1 == IF index0 + 1 >= Len(found) THEN 0 ELSE index0 + 1
    IN  IF query = <<>>
        THEN [mode |-> "search_find", searchQuery |-> <<>>, searchResults |-> <<>>,
              searchResultIndex |-> -1, jumped |-> FALSE, to |-> stay]
        ELSE IF found = <<>>
        THEN [mode |-> "edit", searchQuery |-> query, searchResults |-> found,
              searchResultIndex |-> index0, jumped |-> FALSE, to |-> stay]
        ELSE [mode |-> "edit", searchQuery |-> query, searchResults |-> found,
              searchResultIndex |-> index1, jumped |-> TRUE,
              to |-> JumpToResult(ls, cols, rows, found[index1 + 1])]

(***************************************************************************)
(* Inputs of the model.                                                    *)
(***************************************************************************)
\* the characters typed in a session
TypedChars == {"a"}
\* the digits typed into the Go-to-Line prompt
Digits == {2, 9}
\* process.stdout.rows and process.stdout.columns
TermRows == {3, 4}
TermCols == {5, 7}
\* terminal sizes (rows, columns) of the ScreenBuffer operations
SbSizes == {<<1, 3>>, <<2, 1>>}
\* the grids put and putString are taken on their own on, the cells they
\* already hold and the text putString writes, cut to length
PutSizes == {<<1, 2>>, <<2, 2>>}
HeldCells == {[char |-> " ", style |-> ""], [char |-> "Z", style |-> "RED"]}
Alphabet == <<"A", "B", "C", "D">>
\* the cells put into the pending grid
PutCells == {[char |-> "A", style |-> ""], [char |-> "B", style |-> "RED"],
             [char |-> "A", style |-> "INVALID"]}
\* the texts handed to putString
RECURSIVE TextsOfLen(_)
TextsOfLen(n) == IF n = 0 THEN {<<>>} ELSE {Append(t, "A") : t \in TextsOfLen(n - 1)}
PutTexts == UNION {TextsOfLen(n) : n \in 0..MaxTextLen}
\* screenCols of the geometry operations: content widths -1 and 0 (both
\* treated as 1), 1, 2 and 3
GeomCols == {4, 5, 6, 7, 8}
\* screenRows of the geometry operations
GeomRows == {1, 2, 3}

\* the lines of at most n characters, all "a"
LinesUpTo(n) == {[k \in 1..len |-> "a"] : len \in 0..n}
\* the documents of 1..MaxLines lines
Docs == UNION {[1..n -> LinesUpTo(MaxLen)] : n \in 1..MaxLines}

\* a valid cursor of a document
ValidCursor(ls, cx, cy) ==
    cy >= 0 /\ cy < Len(ls) /\ cx >= 0 /\ cx <= Len(ls[cy + 1])

\* documents of one or two lines over an opening bracket, its closing
\* bracket, an opening bracket of another kind and a letter
BracketChars == {"(", ")", "[", "a"}
BracketLines == UNION {[1..n -> BracketChars] : n \in 0..MaxBracketLen}
BracketDocs == UNION {[1..n -> BracketLines] : n \in 1..MaxLines}

\* cursors up to MaxStray positions outside the document
StrayX == (-MaxStray)..(MaxLen + MaxStray)
StrayY == (-MaxStray)..(MaxLines + MaxStray)

\* documents of one or two lines of letters and spaces
WordChars == {"a", " "}
WordLines == UNION {[1..n -> WordChars] : n \in 0..MaxWordLen}
WordDocs == UNION {[1..n -> WordLines] : n \in 1..MaxLines}

\* this.selectionAnchor = null
NoAnchor == [set |-> FALSE, x |-> 0, y |-> 0]
Anchor(x, y) == [set |-> TRUE, x |-> x, y |-> y]

\* documents of letters, brackets and quotes, the queries searched in them and
\* the ranges the search result map holds
StyleChars == {"a", "(", "'"}
StyleLines == UNION {[1..n -> StyleChars] : n \in 1..MaxStyleLen}
StyleDocs == UNION {[1..n -> StyleLines] : n \in 1..MaxLines}
StyleQueries == {<<>>, <<"a">>, <<"(">>}

\* the record of an applied operation: its name, its argument, the cursor and
\* rowOffset it started from, and the value it returned
Applied(name, arg, result) ==
    [name |-> name, arg |-> arg,
     from |-> [x |-> cursorX, y |-> cursorY, rowOffset |-> rowOffset],
     result |-> result]
\* the record of an event handled by the session: whether the handler ended
\* with a render pass
Handled(name, arg, rendered) ==
    [name |-> name, arg |-> arg, from |-> [x |-> 0, y |-> 0, rowOffset |-> 0],
     result |-> [rendered |-> rendered]]
NoOp == [name |-> "none", arg |-> 0,
         from |-> [x |-> 0, y |-> 0, rowOffset |-> 0], result |-> 0]

(***************************************************************************)
(* ScreenBuffer: screen_buffer.ts.                                         *)
(***************************************************************************)
DefaultCell == [char |-> " ", style |-> ""]
\* the cell flush writes over the committed grid before a full repaint
InvalidCell == [char |-> "", style |-> "INVALID"]

\* createBuffer(rows, cols); cell (x, y) of a grid g is g[y + 1][x + 1]
CreateBuffer(rows, cols) ==
    [y \in 1..rows |-> [x \in 1..cols |-> DefaultCell]]

\* resize(rows, cols): the new fields of the buffer
SBResize(rows, cols) ==
    [rows |-> rows, cols |-> cols,
     currentBuffer |-> CreateBuffer(rows, cols),
     nextBuffer |-> CreateBuffer(rows, cols),
     forceRedraw |-> TRUE]

\* clear(): the new pending grid
SBClear(rows, cols, next) ==
    [y \in 1..rows |-> [x \in 1..cols |-> DefaultCell]]

\* a variant of put that moves a cell outside the grid to the nearest cell
\* inside
SBPut_nearest(rows, cols, next, x, y, char, style) ==
    [next EXCEPT ![Max(0, Min(y, rows - 1)) + 1][Max(0, Min(x, cols - 1)) + 1] =
                    [char |-> char, style |-> style]]

\* put(x, y, char, style): the new pending grid
SBPut(rows, cols, next, x, y, char, style) ==
    IF x >= 0 /\ x < cols /\ y >= 0 /\ y < rows
    THEN [next EXCEPT ![y + 1][x + 1] = [char |-> char, style |-> style]]
    ELSE next

RECURSIVE PutStringFrom(_, _, _, _, _, _, _, _)
\* the loop of putString, from character i of the text
PutStringFrom(rows, cols, next, x, y, text, style, i) ==
    IF i >= Len(text) THEN next
    ELSE PutStringFrom(rows, cols,
                       SBPut(rows, cols, next, x + i, y, text[i + 1], style),
                       x, y, text, style, i + 1)

\* putString(x, y, text, style): the new pending grid
SBPutString(rows, cols, next, x, y, text, style) ==
    PutStringFrom(rows, cols, next, x, y, text, style, 0)

\* the pieces of the stream flush writes: CLEAR_SCREEN, ESC[y+1;x+1H,
\* RESET_COLORS, a style's codes, a character
ClearScreen == [t |-> "clear", y |-> 0, x |-> 0, s |-> ""]
MoveTo(y, x) == [t |-> "move", y |-> y, x |-> x, s |-> ""]
ResetColors == [t |-> "reset", y |-> 0, x |-> 0, s |-> ""]
StyleCodes(style) == [t |-> "style", y |-> 0, x |-> 0, s |-> style]
Char(c) == [t |-> "char", y |-> 0, x |-> 0, s |-> c]

\* a variant of the loop body of flush that writes every cell, changed or not
FlushCell_noDiff(st, next, y, x) ==
    [output |-> st.output \o <<MoveTo(y, x), ResetColors,
                                StyleCodes(next[y + 1][x + 1].style),
                                Char(next[y + 1][x + 1].char)>>,
     lastStyle |-> st.lastStyle, lastY |-> y, lastX |-> x,
     currentBuffer |-> [st.currentBuffer EXCEPT ![y + 1][x + 1] = next[y + 1][x + 1]]]

\* a variant of the loop body of flush that positions the cursor for the
\* first written cell only
FlushCell_moveOnce(st, next, y, x) ==
    LET n == next[y + 1][x + 1]
        c == st.currentBuffer[y + 1][x + 1]
    IN  IF n.char # c.char \/ n.style # c.style
        THEN [output |-> st.output
                    \o (IF st.lastY < 0 THEN <<MoveTo(y, x)>> ELSE <<>>)
                    \o (IF n.style # st.lastStyle
                        THEN IF n.style = "" THEN <<ResetColors>>
                             ELSE <<ResetColors, StyleCodes(n.style)>>
                        ELSE <<>>)
                    \o <<Char(n.char)>>,
              lastStyle |-> n.style, lastY |-> y, lastX |-> x,
              currentBuffer |-> [st.currentBuffer EXCEPT ![y + 1][x + 1] = n]]
        ELSE st

\* a variant of the loop body of flush that applies a new style on top of
\* the one in force
FlushCell_noReset(st, next, y, x) ==
    LET n == next[y + 1][x + 1]
        c == st.currentBuffer[y + 1][x + 1]
    IN  IF n.char # c.char \/ n.style # c.style
        THEN [output |-> st.output
                    \o (IF y # st.lastY \/ x # st.lastX + 1
                        THEN <<MoveTo(y, x)>> ELSE <<>>)
                    \o (IF n.style # st.lastStyle
                        THEN IF n.style = "" THEN <<ResetColors>>
                             ELSE <<StyleCodes(n.style)>>
                        ELSE <<>>)
                    \o <<Char(n.char)>>,
              lastStyle |-> n.style, lastY |-> y, lastX |-> x,
              currentBuffer |-> [st.currentBuffer EXCEPT ![y + 1][x + 1] = n]]
        ELSE st

\* the loop body of flush for cell (x, y); st holds output, lastStyle, lastY,
\* lastX and the committed grid
FlushCell(st, next, y, x) ==
    LET n == next[y + 1][x + 1]
        c == st.currentBuffer[y + 1][x + 1]
    IN  IF n.char # c.char \/ n.style # c.style
        THEN [output |-> st.output
                    \o (IF y # st.lastY \/ x # st.lastX + 1
                        THEN <<MoveTo(y, x)>> ELSE <<>>)
                    \o (IF n.style # st.lastStyle
                        THEN IF n.style = "" THEN <<ResetColors>>
                             ELSE <<ResetColors, StyleCodes(n.style)>>
                        ELSE <<>>)
                    \o <<Char(n.char)>>,
              lastStyle |-> n.style, lastY |-> y, lastX |-> x,
              currentBuffer |-> [st.currentBuffer EXCEPT ![y + 1][x + 1] = n]]
        ELSE st

RECURSIVE FlushLoop(_, _, _, _, _)
\* the two loops of flush in row-major order, from cell number i
FlushLoop(st, next, rows, cols, i) ==
    IF i >= rows * cols THEN st
    ELSE FlushLoop(FlushCell(st, next, i \div cols, i % cols), next, rows, cols, i + 1)

\* a variant of the start of flush that keeps the committed grid
FlushStart_keepCommitted(rows, cols, current, force) ==
    [output |-> IF force THEN <<ClearScreen>> ELSE <<>>,
     lastStyle |-> "", lastY |-> -1, lastX |-> -1,
     currentBuffer |-> current]

\* the start of flush: on forceRedraw, CLEAR_SCREEN and an invalid committed grid
FlushStart(rows, cols, current, force) ==
    [output |-> IF force THEN <<ClearScreen>> ELSE <<>>,
     lastStyle |-> "", lastY |-> -1, lastX |-> -1,
     currentBuffer |-> IF force
                       THEN [y \in 1..rows |-> [x \in 1..cols |-> InvalidCell]]
                       ELSE current]

\* flush(): the stream written to stdout and the new committed grid
SBFlush(rows, cols, current, next, force) ==
    LET st == FlushLoop(FlushStart(rows, cols, current, force), next, rows, cols, 0)
    IN  [output |-> st.output \o (IF st.lastStyle # "" THEN <<ResetColors>> ELSE <<>>),
         currentBuffer |-> st.currentBuffer]

(***************************************************************************)
(* The terminal: a grid of cells, a cursor and a current style, driven by  *)
(* the stream.  A cursor move is absolute, a character is drawn in the     *)
(* current style at the cursor and advances it one cell, CLEAR_SCREEN      *)
(* blanks every cell, a style sequence adds to the style in force and a    *)
(* reset ends it.  No style is in force when a flush begins: setupTerminal *)
(* sets none and every flush ends with none (C17).                         *)
(***************************************************************************)
\* what the terminal shows where nothing is known to have been drawn by the
\* buffer: the direct writes of render(), or the content left by a resize
StaleCell == [char |-> "?", style |-> "?"]
StaleGrid(rows, cols) == [y \in 1..rows |-> [x \in 1..cols |-> StaleCell]]

\* how a character drawn with the style codes in `active` in force looks: the
\* codes add up until a reset, so two different pending styles in force at
\* once look like neither
Shown(active) ==
    IF active = {} THEN ""
    ELSE IF Cardinality(active) = 1 THEN CHOOSE s \in active : TRUE
    ELSE "MIXED"

TerminalStep(ts, tok) ==
    IF tok.t = "clear"
    THEN [ts EXCEPT !.grid = [y \in DOMAIN ts.grid |->
                                [x \in DOMAIN ts.grid[y] |-> DefaultCell]]]
    ELSE IF tok.t = "move" THEN [ts EXCEPT !.y = tok.y, !.x = tok.x]
    ELSE IF tok.t = "reset" THEN [ts EXCEPT !.style = {}]
    ELSE IF tok.t = "style" THEN [ts EXCEPT !.style = ts.style \cup {tok.s}]
    ELSE IF ts.y + 1 \in DOMAIN ts.grid /\ ts.x + 1 \in DOMAIN ts.grid[ts.y + 1]
    THEN [ts EXCEPT !.grid[ts.y + 1][ts.x + 1] = [char |-> tok.s,
                                                    style |-> Shown(ts.style)],
                    !.written = ts.written \cup {<<ts.y, ts.x>>},
                    !.chars = ts.chars + 1,
                    !.x = ts.x + 1]
    ELSE [ts EXCEPT !.chars = ts.chars + 1, !.x = ts.x + 1]

RECURSIVE TerminalRun(_, _, _)
TerminalRun(ts, stream, i) ==
    IF i > Len(stream) THEN ts
    ELSE TerminalRun(TerminalStep(ts, stream[i]), stream, i + 1)

\* the terminal after the stream: its grid, the set of cells (y, x) drawn and
\* the number of characters received
Terminal(grid, stream) ==
    TerminalRun([grid |-> grid, y |-> 0, x |-> 0, style |-> {},
                 written |-> {}, chars |-> 0], stream, 1)

\* committedBefore when the latest operation on the buffer was not a flush
(***************************************************************************)
(* Syntax colours: syntax.common.ts and editor.syntax.ts.  A cache entry   *)
(* is the empty map stored when the request was posted (pending) or the    *)
(* map parsed from a line's content.                                       *)
(***************************************************************************)
COLOR_BRACKET_1 == "YELLOW"
COLOR_STRING == "GREEN"

RECURSIVE BackslashCount(_, _)
\* the backslashes that end at index j
BackslashCount(lineContent, j) ==
    IF j >= 0 /\ lineContent[j + 1] = "\\" THEN 1 + BackslashCount(lineContent, j - 1)
    ELSE 0

RECURSIVE ParseFrom(_, _, _, _)
\* the loop of parseLineSyntax from index i: the colour of every index, ""
\* where the map has no entry
ParseFrom(lineContent, i, state, colorMap) ==
    IF i >= Len(lineContent) THEN colorMap
    ELSE LET char == lineContent[i + 1]
             closes == BackslashCount(lineContent, i - 1) % 2 = 0
         IN  IF state = "NORMAL"
             THEN IF char = "\""
                  THEN ParseFrom(lineContent, i + 1, "IN_STRING_DOUBLE",
                                 Append(colorMap, COLOR_STRING))
                  ELSE IF char = "'"
                  THEN ParseFrom(lineContent, i + 1, "IN_STRING_SINGLE",
                                 Append(colorMap, COLOR_STRING))
                  ELSE IF char \in {"(", ")", "[", "]", "{", "}"}
                  THEN ParseFrom(lineContent, i + 1, "NORMAL",
                                 Append(colorMap, COLOR_BRACKET_1))
                  ELSE ParseFrom(lineContent, i + 1, "NORMAL", Append(colorMap, ""))
             ELSE IF state = "IN_STRING_DOUBLE"
             THEN ParseFrom(lineContent, i + 1,
                            IF char = "\"" /\ closes THEN "NORMAL" ELSE state,
                            Append(colorMap, COLOR_STRING))
             ELSE ParseFrom(lineContent, i + 1,
                            IF char = "'" /\ closes THEN "NORMAL" ELSE state,
                            Append(colorMap, COLOR_STRING))

\* parseLineSyntax(lineContent)
ParseLineSyntax(lineContent) == ParseFrom(lineContent, 0, "NORMAL", <<>>)

PendingEntry(lineIndex) == [lineIndex |-> lineIndex, pending |-> TRUE, content |-> <<>>]
ParsedEntry(lineIndex, content) ==
    [lineIndex |-> lineIndex, pending |-> FALSE, content |-> content]
Request(lineIndex, content) == [lineIndex |-> lineIndex, content |-> content]

\* this.syntaxCache.has(lineIndex), this.syntaxCache.set(lineIndex, entry)
CacheHas(cache, lineIndex) == \E e \in cache : e.lineIndex = lineIndex
CacheSet(cache, entry) == {e \in cache : e.lineIndex # entry.lineIndex} \cup {entry}

\* syntaxColorMap.get(logicalX) of the map the cache holds for the line: ""
\* when it has none
ColorAt(cache, lineIndex, logicalX) ==
    IF \E e \in cache : e.lineIndex = lineIndex /\ ~e.pending
                           /\ logicalX < Len(e.content)
    THEN ParseLineSyntax((CHOOSE e \in cache : e.lineIndex = lineIndex).content)[logicalX + 1]
    ELSE ""

\* a variant of getLineSyntaxColor that does not store the empty map
GetLineSyntaxColor_noPending(st, worker, lineIndex, lineContent) ==
    IF CacheHas(st.cache, lineIndex) THEN st
    ELSE IF worker
    THEN [cache |-> st.cache,
          posted |-> Append(st.posted, Request(lineIndex, lineContent))]
    ELSE [cache |-> CacheSet(st.cache, ParsedEntry(lineIndex, lineContent)),
          posted |-> st.posted]

\* getLineSyntaxColor(lineIndex, lineContent): the cache and the requests
\* posted to the worker
GetLineSyntaxColor(st, worker, lineIndex, lineContent) ==
    IF CacheHas(st.cache, lineIndex) THEN st
    ELSE IF worker
    THEN [cache |-> CacheSet(st.cache, PendingEntry(lineIndex)),
          posted |-> Append(st.posted, Request(lineIndex, lineContent))]
    ELSE [cache |-> CacheSet(st.cache, ParsedEntry(lineIndex, lineContent)),
          posted |-> st.posted]

RECURSIVE RenderLookups(_, _, _, _, _)
\* the getLineSyntaxColor calls of a render pass, one per text row drawn,
\* from row k of the frame
RenderLookups(st, worker, ls, fr, k) ==
    IF k > Len(fr) THEN st
    ELSE IF fr[k].kind = "text"
    THEN RenderLookups(GetLineSyntaxColor(st, worker, fr[k].logicalY,
                                          ls[fr[k].logicalY + 1]),
                       worker, ls, fr, k + 1)
    ELSE RenderLookups(st, worker, ls, fr, k + 1)

(***************************************************************************)
(* The style of a drawn character: editor.selection.ts and the character   *)
(* loop of render().                                                       *)
(***************************************************************************)
\* p1 is before p2 in the document
Before(p1, p2) == p1.y < p2.y \/ (p1.y = p2.y /\ p1.x < p2.x)

\* getNormalizedSelection(): null when there is no anchor
GetNormalizedSelection(anchor, cx, cy) ==
    IF ~anchor.set THEN [set |-> FALSE, start |-> [x |-> 0, y |-> 0], end |-> [x |-> 0, y |-> 0]]
    ELSE IF Before(anchor, [x |-> cx, y |-> cy])
    THEN [set |-> TRUE, start |-> [x |-> anchor.x, y |-> anchor.y],
          end |-> [x |-> cx, y |-> cy]]
    ELSE [set |-> TRUE, start |-> [x |-> cx, y |-> cy],
          end |-> [x |-> anchor.x, y |-> anchor.y]]

\* isPositionInSelection that takes the end position in
IsPositionInSelection_closed(logicalY, logicalX, range) ==
    IF logicalY < range.start.y \/ logicalY > range.end.y THEN FALSE
    ELSE IF logicalY = range.start.y /\ logicalX < range.start.x THEN FALSE
    ELSE IF logicalY = range.end.y /\ logicalX > range.end.x THEN FALSE
    ELSE TRUE

\* isPositionInSelection(logicalY, logicalX, range)
IsPositionInSelection(logicalY, logicalX, range) ==
    IF logicalY < range.start.y \/ logicalY > range.end.y THEN FALSE
    ELSE IF logicalY = range.start.y /\ logicalX < range.start.x THEN FALSE
    ELSE IF logicalY = range.end.y /\ logicalX >= range.end.x THEN FALSE
    ELSE TRUE

\* the overlays of the character at (logicalY, logicalX), as render() computes
\* them from the editor's fields
Overlays(ed, logicalY, logicalX) ==
    [isSelected |->
        \E range \in {GetNormalizedSelection(ed.selectionAnchor, ed.cursorX, ed.cursorY)} :
            range.set /\ IsPositionInSelection(logicalY, logicalX, range),
     isCursorPosition |-> logicalY = ed.cursorY /\ logicalX = ed.cursorX,
     isCurrentSearchResult |->
        /\ ed.searchResultIndex # -1
        /\ ed.searchResultIndex + 1 \in DOMAIN ed.searchResults
        /\ ed.searchResults[ed.searchResultIndex + 1].y = logicalY
        /\ logicalX >= ed.searchResults[ed.searchResultIndex + 1].x
        /\ logicalX < ed.searchResults[ed.searchResultIndex + 1].x + Len(ed.searchQuery),
     isGlobalSearchResult |->
        \E match \in ed.searchResultMap :
            match.y = logicalY /\ logicalX >= match.start /\ logicalX < match.end,
     syntaxColor |-> ColorAt(ed.syntaxCache, logicalY, logicalX)]

\* a variant of the style choice that lets the syntax colour through a search
\* match
StyleOf_colourOverMatch(o) ==
    IF o.isSelected THEN "INVERT"
    ELSE IF o.isCursorPosition THEN "INVERT"
    ELSE IF o.syntaxColor # "" THEN o.syntaxColor
    ELSE IF o.isCurrentSearchResult THEN "INVERT_UNDERLINE"
    ELSE IF o.isGlobalSearchResult THEN "INVERT"
    ELSE ""

\* the escape codes render() writes before the character: INVERT_COLORS,
\* INVERT_COLORS + ESC[4m, the syntax colour, or nothing
StyleOf(o) ==
    IF o.isSelected THEN "INVERT"
    ELSE IF o.isCursorPosition THEN "INVERT"
    ELSE IF o.isCurrentSearchResult THEN "INVERT_UNDERLINE"
    ELSE IF o.isGlobalSearchResult THEN "INVERT"
    ELSE IF o.syntaxColor # "" THEN o.syntaxColor
    ELSE ""

\* the characters a render pass draws with their styles: for every text row
\* of the frame, the characters of its chunk
DrawnStyles(ed, fr) ==
    UNION {{[y |-> fr[k].logicalY, x |-> x,
             style |-> StyleOf(Overlays(ed, fr[k].logicalY, x))] :
                x \in fr[k].chunkStart..(fr[k].chunkEnd - 1)} :
           k \in {j \in 1..Len(fr) : fr[j].kind = "text"}}

NoFlush == [grid |-> <<>>, forceRedraw |-> TRUE]

bufferUnchanged == UNCHANGED bufferVars
sessionUnchanged == UNCHANGED sessionVars

\* no save in flight and the promise of run() not settled
NothingSaved ==
    /\ pendingSaves = <<>>
    /\ settled = <<>>
    /\ stored = <<>>
\* the history left out: empty stacks, with the limit of new HistoryManager()
NoHistory ==
    /\ undoHistory = <<>>
    /\ redoHistory = <<>>
    /\ historyLimit = 100

\* the fields of a new CliEditor that the search and the syntax worker use
SessionFields ==
    /\ searchQuery = <<>>
    /\ searchResults = <<>>
    /\ searchResultIndex = -1
    /\ selectionAnchor = NoAnchor
    /\ searchResultMap = {}
    /\ NothingSaved
    /\ syntaxCache = {}
    /\ workerReplies = <<>>
    /\ isCleanedUp = FALSE
\* ... with the history left out
SessionInit ==
    /\ SessionFields
    /\ NoHistory

(***************************************************************************)
(* The editor session: editor.ts and editor.keys.ts.  Every key handler    *)
(* that runs to its end calls render() last.                               *)
(***************************************************************************)
\* the state render() leaves when the handler has made the document ls, the
\* cursor (cx, cy) and the viewport (rows, cols, off)
Rendered(ls, cols, rows, off, cx, cy) ==
    \E r \in {RenderResult(ls, cols, rows, off, cx, cy)} :
        /\ lines' = ls
        /\ screenCols' = cols
        /\ screenRows' = rows
        /\ cursorX' = r.x
        /\ cursorY' = r.y
        /\ rowOffset' = r.rowOffset
        /\ frame' = r.frame
        /\ physCursor' = r.physCursor
        /\ renderedCursor' = [x |-> cx, y |-> cy]

\* new CliEditor(content, path).run(): setupTerminal() and the first render()
Init ==
    /\ \E ls \in Docs, tr \in TermRows, tc \in TermCols :
        \E r \in {RenderResult(ls, tc, tr - 2, 0, 0, 0)} :
            /\ lines = ls
            /\ screenCols = tc
            /\ screenRows = tr - 2
            /\ cursorX = r.x
            /\ cursorY = r.y
            /\ rowOffset = r.rowOffset
            /\ frame = r.frame
            /\ physCursor = r.physCursor
            /\ renderedCursor = [x |-> 0, y |-> 0]
            /\ sbRows = tr
            /\ sbCols = tc
            /\ currentBuffer = CreateBuffer(tr, tc)
            /\ nextBuffer = CreateBuffer(tr, tc)
            /\ term = StaleGrid(tr, tc)
    /\ mode = "edit"
    /\ goToLineQuery = <<>>
    /\ isExiting = FALSE
    /\ isDirty = FALSE
    /\ quitConfirm = FALSE
    /\ quitTimer = FALSE
    /\ pendingCuts = <<>>
    /\ SessionInit
    /\ op = NoOp
    /\ forceRedraw = TRUE
    /\ output = <<>>
    /\ committedBefore = NoFlush

\* what a key handler in 'edit' mode leaves alone unless it says otherwise
editKeyFrame ==
    /\ UNCHANGED <<mode, goToLineQuery, isExiting, quitConfirm, quitTimer,
                   pendingCuts, op>>
    /\ bufferUnchanged
    /\ sessionUnchanged

\* ARROW_UP / ARROW_DOWN, PAGE_UP / PAGE_DOWN: moveCursorVisually(dy)
KeyVertical ==
    /\ ~isExiting /\ mode = "edit"
    /\ \E dy \in {-1, 1, -screenRows, screenRows} :
        LET c == MoveCursorVisually(lines, screenCols, cursorX, cursorY, dy)
        IN  Rendered(lines, screenCols, screenRows, rowOffset, c.x, c.y)
    /\ UNCHANGED isDirty
    /\ editKeyFrame

\* ARROW_LEFT / ARROW_RIGHT: moveCursorLogically(dx)
KeyHorizontal ==
    /\ ~isExiting /\ mode = "edit"
    /\ \E dx \in {-1, 1} :
        LET c == MoveCursorLogically(lines, cursorX, cursorY, dx)
        IN  Rendered(lines, screenCols, screenRows, rowOffset, c.x, c.y)
    /\ UNCHANGED isDirty
    /\ editKeyFrame

\* HOME: this.cursorX = this.findVisualRowStart()
KeyHome ==
    /\ ~isExiting /\ mode = "edit"
    /\ Rendered(lines, screenCols, screenRows, rowOffset,
                FindVisualRowStart(screenCols, cursorX), cursorY)
    /\ UNCHANGED isDirty
    /\ editKeyFrame

\* END: this.cursorX = this.findVisualRowEnd()
KeyEnd ==
    /\ ~isExiting /\ mode = "edit"
    /\ Rendered(lines, screenCols, screenRows, rowOffset,
                FindVisualRowEnd(lines, screenCols, cursorX, cursorY), cursorY)
    /\ UNCHANGED isDirty
    /\ editKeyFrame

\* a printable character: handleCharacterKey(ch)
KeyChar ==
    /\ ~isExiting /\ mode = "edit"
    /\ \E ch \in TypedChars :
        /\ Len(lines[cursorY + 1]) + (IF ch \in DOMAIN PAIR_MAP THEN 2 ELSE 1) <= MaxLen
        /\ LET e == HandleCharacterKey(lines, cursorX, cursorY, ch)
           IN  /\ Rendered(e.lines, screenCols, screenRows, rowOffset, e.x, e.y)
               /\ isDirty' = (isDirty \/ e.lines # lines)
    /\ editKeyFrame

\* ENTER: insertNewLine()
KeyEnter ==
    /\ ~isExiting /\ mode = "edit"
    /\ Len(lines) < MaxLines
    /\ LET e == InsertNewLine(lines, cursorX, cursorY)
       IN  /\ \A i \in 1..Len(e.lines) : Len(e.lines[i]) <= MaxLen
           /\ Rendered(e.lines, screenCols, screenRows, rowOffset, e.x, e.y)
    /\ isDirty' = TRUE
    /\ editKeyFrame

\* BACKSPACE with no selection
KeyBackspace ==
    /\ ~isExiting /\ mode = "edit"
    /\ LET e == Backspace(lines, cursorX, cursorY)
       IN  /\ \A i \in 1..Len(e.lines) : Len(e.lines[i]) <= MaxLen
           /\ Rendered(e.lines, screenCols, screenRows, rowOffset, e.x, e.y)
    /\ isDirty' = TRUE
    /\ editKeyFrame

\* DELETE with no selection: deleteForward()
KeyDelete ==
    /\ ~isExiting /\ mode = "edit"
    /\ LET e == DeleteForward(lines, cursorX, cursorY)
       IN  /\ \A i \in 1..Len(e.lines) : Len(e.lines[i]) <= MaxLen
           /\ Rendered(e.lines, screenCols, screenRows, rowOffset, e.x, e.y)
    /\ isDirty' = TRUE
    /\ editKeyFrame

\* CTRL_K: cutLine() runs up to `await this.setClipboard(lineToCut)`, the
\* handler goes on (saveState, render) and the rest of cutLine runs later
KeyCutLine ==
    /\ ~isExiting /\ mode = "edit"
    /\ Len(pendingCuts) < MaxInFlight
    /\ pendingCuts' = IF CutLineStarts(lines)
                      THEN Append(pendingCuts, lines[cursorY + 1])
                      ELSE pendingCuts
    /\ Rendered(lines, screenCols, screenRows, rowOffset, cursorX, cursorY)
    /\ UNCHANGED <<mode, goToLineQuery, isExiting, isDirty, quitConfirm,
                   quitTimer, op>>
    /\ bufferUnchanged
    /\ sessionUnchanged

\* the clipboard command of the oldest cutLine() in flight completes: the
\* rest of cutLine() runs; no render() follows
CutLineContinue ==
    /\ pendingCuts # <<>>
    /\ LET e == CutLineResume(lines, cursorX, cursorY)
       IN  /\ lines' = e.lines
           /\ cursorX' = e.x
           /\ cursorY' = e.y
    /\ isDirty' = TRUE
    /\ pendingCuts' = Tail(pendingCuts)
    /\ UNCHANGED <<rowOffset, screenRows, screenCols, mode, goToLineQuery,
                   isExiting, quitConfirm, quitTimer, frame, physCursor, renderedCursor,
                   op>>
    /\ bufferUnchanged
    /\ sessionUnchanged

\* CTRL_L: enterGoToLineMode()
KeyGoToLine ==
    /\ ~isExiting /\ mode = "edit"
    /\ mode' = "goto_line"
    /\ goToLineQuery' = <<>>
    /\ Rendered(lines, screenCols, screenRows, rowOffset, cursorX, cursorY)
    /\ UNCHANGED <<isExiting, isDirty, quitConfirm, quitTimer, pendingCuts, op>>
    /\ bufferUnchanged
    /\ sessionUnchanged

\* handleGoToLineKeys: a digit, BACKSPACE, ESCAPE / CTRL_C / CTRL_Q
GoToLineEdit ==
    /\ ~isExiting /\ mode = "goto_line"
    /\ \/ \E d \in Digits :
            /\ Len(goToLineQuery) < MaxQuery
            /\ goToLineQuery' = Append(goToLineQuery, d)
            /\ mode' = mode
       \/ /\ goToLineQuery' = SubSeq(goToLineQuery, 1, Len(goToLineQuery) - 1)
          /\ mode' = mode
       \/ /\ goToLineQuery' = <<>>
          /\ mode' = "edit"
    /\ Rendered(lines, screenCols, screenRows, rowOffset, cursorX, cursorY)
    /\ UNCHANGED <<isExiting, isDirty, quitConfirm, quitTimer, pendingCuts, op>>
    /\ bufferUnchanged
    /\ sessionUnchanged

\* handleGoToLineKeys, ENTER: jumpToLine(parseInt(query)) on a number > 0
GoToLineEnter ==
    /\ ~isExiting /\ mode = "goto_line"
    /\ LET lineNumber == ParseInt(goToLineQuery)
           j == JumpToLine(lines, screenCols, screenRows, lineNumber)
       IN  IF lineNumber > 0
           THEN Rendered(lines, screenCols, screenRows, j.rowOffset, j.x, j.y)
           ELSE Rendered(lines, screenCols, screenRows, rowOffset, cursorX, cursorY)
    /\ mode' = "edit"
    /\ goToLineQuery' = <<>>
    /\ UNCHANGED <<isExiting, isDirty, quitConfirm, quitTimer, pendingCuts, op>>
    /\ bufferUnchanged
    /\ sessionUnchanged

\* the buffer after resize(rows, cols); what the terminal shows in the new
\* grid is not known to the buffer
Resized(rows, cols) ==
    \E b \in {SBResize(rows, cols)} :
        /\ sbRows' = b.rows
        /\ sbCols' = b.cols
        /\ currentBuffer' = b.currentBuffer
        /\ nextBuffer' = b.nextBuffer
        /\ forceRedraw' = b.forceRedraw
        /\ term' = StaleGrid(rows, cols)
        /\ output' = <<>>
        /\ committedBefore' = NoFlush

\* handleResize() for a terminal of tr rows and tc columns:
\* updateScreenSize(), screenBuffer.resize(), render(); the listener is
\* removed when the session exits
HandleResizeTo(tr, tc) ==
    /\ ~isExiting
    /\ Rendered(lines, tc, tr - 2, rowOffset, cursorX, cursorY)
    /\ Resized(tr, tc)
    /\ UNCHANGED <<mode, goToLineQuery, isExiting, isDirty, quitConfirm,
                   quitTimer, pendingCuts>>
    /\ sessionUnchanged

HandleResize ==
    /\ \E tr \in TermRows, tc \in TermCols : HandleResizeTo(tr, tc)
    /\ UNCHANGED op

Next ==
    \/ KeyVertical
    \/ KeyHorizontal
    \/ KeyHome
    \/ KeyEnd
    \/ KeyChar
    \/ KeyEnter
    \/ KeyBackspace
    \/ KeyDelete
    \/ KeyCutLine
    \/ CutLineContinue
    \/ KeyGoToLine
    \/ GoToLineEdit
    \/ GoToLineEnter
    \/ HandleResize

Spec == Init /\ [][Next]_vars

(***************************************************************************)
(* Leaving the session, with the syntax worker loaded.  getLineSyntaxColor *)
(* posts one request for every line it draws that has no cache entry and   *)
(* caches a placeholder; the session starts with a document that fits the  *)
(* screen, so the first render() requests every line and no later pass     *)
(* requests anything.  Once performCleanup() has removed the listeners no  *)
(* key or resize event reaches the editor; the stdout write it issues      *)
(* completes later, and worker replies may still be delivered.             *)
(***************************************************************************)
InitExit ==
    /\ \E ls \in Docs, tr \in TermRows, tc \in TermCols :
        \E r \in {RenderResult(ls, tc, tr - 2, 0, 0, 0)} :
            /\ \A i \in 1..Len(ls) : \E k \in 1..Len(r.frame) :
                    r.frame[k].kind = "text" /\ r.frame[k].logicalY = i - 1
            /\ lines = ls
            /\ screenCols = tc
            /\ screenRows = tr - 2
            /\ cursorX = r.x
            /\ cursorY = r.y
            /\ rowOffset = r.rowOffset
            /\ frame = r.frame
            /\ physCursor = r.physCursor
            /\ renderedCursor = [x |-> 0, y |-> 0]
            /\ sbRows = tr
            /\ sbCols = tc
            /\ currentBuffer = CreateBuffer(tr, tc)
            /\ nextBuffer = CreateBuffer(tr, tc)
            /\ term = StaleGrid(tr, tc)
            /\ workerReplies = [i \in 1..Len(ls) |-> Request(i - 1, ls[i])]
            /\ syntaxCache = {PendingEntry(i) : i \in 0..(Len(ls) - 1)}
    /\ mode = "edit"
    /\ goToLineQuery = <<>>
    /\ isExiting = FALSE
    /\ isDirty = FALSE
    /\ quitConfirm = FALSE
    /\ quitTimer = FALSE
    /\ pendingCuts = <<>>
    /\ searchQuery = <<>>
    /\ searchResults = <<>>
    /\ searchResultIndex = -1
    /\ selectionAnchor = NoAnchor
    /\ searchResultMap = {}
    /\ NothingSaved
    /\ NoHistory
    /\ isCleanedUp = FALSE
    /\ op = NoOp
    /\ forceRedraw = TRUE
    /\ output = <<>>
    /\ committedBefore = NoFlush

\* what render() sets
renderUnchanged ==
    UNCHANGED <<lines, cursorX, cursorY, rowOffset, screenRows, screenCols,
                frame, physCursor, renderedCursor>>

RECURSIVE Join(_)
\* this.lines.join('\n'): the characters of the lines, "\n" between two lines
Join(ls) ==
    IF Len(ls) = 0 THEN <<>>
    ELSE IF Len(ls) = 1 THEN ls[1]
    ELSE ls[1] \o <<"\n">> \o Join(Tail(ls))

\* the value handed to this.resolvePromise
Resolution(saved, ls) == [saved |-> saved, content |-> Join(ls)]

\* handleCtrlQ() that exits although the changes were not confirmed
HandleCtrlQ_noPrompt(dirty, confirm) ==
    [quitConfirm |-> confirm, timer |-> FALSE, isExiting |-> TRUE]

\* handleCtrlQ(): the confirmation flag it leaves, whether it starts the 3 s
\* timer, and whether it exits
HandleCtrlQ(dirty, confirm) ==
    IF dirty /\ ~confirm
    THEN [quitConfirm |-> TRUE, timer |-> TRUE, isExiting |-> FALSE]
    ELSE [quitConfirm |-> confirm, timer |-> FALSE, isExiting |-> TRUE]

\* CTRL_Q in 'edit' mode: handleCtrlQ(), then render() unless exiting
KeyQuit ==
    /\ ~isExiting /\ mode = "edit"
    /\ \E q \in {HandleCtrlQ(isDirty, quitConfirm)} :
        /\ quitConfirm' = q.quitConfirm
        /\ quitTimer' = (quitTimer \/ q.timer)
        /\ isExiting' = q.isExiting
        /\ IF q.isExiting
           THEN /\ settled' = Append(settled, Resolution(FALSE, lines))
                /\ renderUnchanged
           ELSE /\ UNCHANGED settled
                /\ Rendered(lines, screenCols, screenRows, rowOffset,
                            cursorX, cursorY)
    /\ UNCHANGED <<mode, goToLineQuery, isDirty, pendingCuts, op>>
    /\ bufferUnchanged
    /\ UNCHANGED <<searchQuery, searchResults, searchResultIndex, overlayVars,
                   pendingSaves, stored, historyVars, syntaxCache,
                   workerReplies, isCleanedUp>>

\* the 3 s timer of handleCtrlQ fires
QuitConfirmTimeout ==
    /\ quitTimer
    /\ quitConfirm' = FALSE
    /\ quitTimer' = FALSE
    /\ renderUnchanged
    /\ UNCHANGED <<mode, goToLineQuery, isExiting, isDirty, pendingCuts, op>>
    /\ bufferUnchanged
    /\ sessionUnchanged

\* the callback of performCleanup's stdout write
CleanupDone ==
    /\ isExiting /\ ~isCleanedUp
    /\ isCleanedUp' = TRUE
    /\ renderUnchanged
    /\ UNCHANGED <<mode, goToLineQuery, isExiting, isDirty, quitConfirm,
                   quitTimer, pendingCuts, op, searchQuery, searchResults,
                   searchResultIndex, overlayVars, promiseVars, historyVars,
                   syntaxCache, workerReplies>>
    /\ bufferUnchanged

\* render() with the syntax worker loaded: the lines drawn are looked up in
\* the cache, and those it misses are requested from the worker
RenderedWithWorker(ls, cols, rows, off, cx, cy, cache, posted) ==
    /\ Rendered(ls, cols, rows, off, cx, cy)
    /\ \E st \in {RenderLookups([cache |-> cache, posted |-> posted], TRUE, ls,
                                 frame', 1)} :
        /\ Len(st.posted) <= MaxPosted
        /\ syntaxCache' = st.cache
        /\ workerReplies' = st.posted

\* handleWorkerMessage({lineIndex, colorMap}): the worker answers its oldest
\* request
WorkerReply ==
    /\ workerReplies # <<>>
    /\ \E cache \in {CacheSet(syntaxCache,
                               ParsedEntry(Head(workerReplies).lineIndex,
                                           Head(workerReplies).content))} :
        IF ~isCleanedUp
        THEN RenderedWithWorker(lines, screenCols, screenRows, rowOffset, cursorX,
                                cursorY, cache, Tail(workerReplies))
        ELSE /\ renderUnchanged
             /\ syntaxCache' = cache
             /\ workerReplies' = Tail(workerReplies)
    /\ op' = Handled("handleWorkerMessage", Head(workerReplies).lineIndex,
                     ~isCleanedUp)
    /\ UNCHANGED <<mode, goToLineQuery, isExiting, isDirty, quitConfirm,
                   quitTimer, pendingCuts, searchQuery, searchResults,
                   searchResultIndex, overlayVars, promiseVars, historyVars,
                   isCleanedUp>>
    /\ bufferUnchanged

NextExit ==
    \/ KeyVertical
    \/ KeyHorizontal
    \/ KeyCutLine
    \/ CutLineContinue
    \/ KeyQuit
    \/ QuitConfirmTimeout
    \/ CleanupDone
    \/ WorkerReply
    \/ HandleResize

SpecExit == InitExit /\ [][NextExit]_vars

(***************************************************************************)
(* The session with the syntax worker loaded, on a screen of one row that  *)
(* the document may not fit: moving the cursor draws other lines, typing   *)
(* invalidates the cache, the worker answers its requests in order.        *)
(***************************************************************************)
InitSyntax ==
    /\ \E ls \in Docs :
        \E r \in {RenderResult(ls, 7, 1, 0, 0, 0)} :
            \E st \in {RenderLookups([cache |-> {}, posted |-> <<>>], TRUE, ls,
                                     r.frame, 1)} :
                /\ lines = ls
                /\ screenCols = 7
                /\ screenRows = 1
                /\ cursorX = r.x
                /\ cursorY = r.y
                /\ rowOffset = r.rowOffset
                /\ frame = r.frame
                /\ physCursor = r.physCursor
                /\ renderedCursor = [x |-> 0, y |-> 0]
                /\ syntaxCache = st.cache
                /\ workerReplies = st.posted
    /\ sbRows = 3
    /\ sbCols = 7
    /\ currentBuffer = CreateBuffer(3, 7)
    /\ nextBuffer = CreateBuffer(3, 7)
    /\ term = StaleGrid(3, 7)
    /\ mode = "edit"
    /\ goToLineQuery = <<>>
    /\ isExiting = FALSE
    /\ isDirty = FALSE
    /\ quitConfirm = FALSE
    /\ quitTimer = FALSE
    /\ pendingCuts = <<>>
    /\ searchQuery = <<>>
    /\ searchResults = <<>>
    /\ searchResultIndex = -1
    /\ selectionAnchor = NoAnchor
    /\ searchResultMap = {}
    /\ NothingSaved
    /\ NoHistory
    /\ isCleanedUp = FALSE
    /\ op = NoOp
    /\ forceRedraw = TRUE
    /\ output = <<>>
    /\ committedBefore = NoFlush

syntaxKeyFrame ==
    /\ UNCHANGED <<mode, goToLineQuery, isExiting, quitConfirm, quitTimer,
                   pendingCuts, searchQuery, searchResults, searchResultIndex,
                   overlayVars, promiseVars, historyVars, isCleanedUp>>
    /\ bufferUnchanged

\* ARROW_UP / ARROW_DOWN: moveCursorVisually(dy), then render()
SyntaxKeyVertical ==
    /\ ~isExiting /\ mode = "edit"
    /\ \E dy \in {-1, 1} :
        /\ \E c \in {MoveCursorVisually(lines, screenCols, cursorX, cursorY, dy)} :
            RenderedWithWorker(lines, screenCols, screenRows, rowOffset, c.x, c.y,
                               syntaxCache, workerReplies)
        /\ op' = Handled("key", dy, TRUE)
    /\ UNCHANGED isDirty
    /\ syntaxKeyFrame

\* a printable character: handleCharacterKey(ch), which invalidates the
\* syntax cache, then render()
SyntaxKeyChar ==
    /\ ~isExiting /\ mode = "edit"
    /\ \E ch \in TypedChars :
        /\ Len(lines[cursorY + 1]) < MaxLen
        /\ \E e \in {HandleCharacterKey(lines, cursorX, cursorY, ch)} :
            RenderedWithWorker(e.lines, screenCols, screenRows, rowOffset, e.x, e.y,
                               {}, workerReplies)
        /\ op' = Handled("key", ch, TRUE)
    /\ isDirty' = TRUE
    /\ syntaxKeyFrame

NextSyntax ==
    \/ SyntaxKeyVertical
    \/ SyntaxKeyChar
    \/ WorkerReply
    \/ KeyQuit
    \/ QuitConfirmTimeout
    \/ CleanupDone

SpecSyntax == InitSyntax /\ [][NextSyntax]_vars

(***************************************************************************)
(* The same session with keys that change the lines: a typed opening       *)
(* bracket (auto-paired), ENTER and BACKSPACE.  insertCharacter,           *)
(* insertNewLine and deleteBackward end with invalidateSyntaxCache(); the  *)
(* pair deletion of the BACKSPACE case does not call it.                   *)
(***************************************************************************)
CacheChars == {"("}
CacheLines == UNION {[1..n -> CacheChars] : n \in 0..MaxCacheLen}
CacheDocs == UNION {[1..n -> CacheLines] : n \in 1..MaxLines}

\* the characters a document holds
CacheTextLen(ls) == SumTo([i \in 0..(Len(ls) - 1) |-> Len(ls[i + 1])], Len(ls))

InitCache ==
    /\ \E ls \in CacheDocs :
        \E r \in {RenderResult(ls, 7, 1, 0, 0, 0)} :
            \E st \in {RenderLookups([cache |-> {}, posted |-> <<>>], TRUE, ls,
                                     r.frame, 1)} :
                /\ lines = ls
                /\ screenCols = 7
                /\ screenRows = 1
                /\ cursorX = r.x
                /\ cursorY = r.y
                /\ rowOffset = r.rowOffset
                /\ frame = r.frame
                /\ physCursor = r.physCursor
                /\ renderedCursor = [x |-> 0, y |-> 0]
                /\ syntaxCache = st.cache
                /\ workerReplies = st.posted
    /\ sbRows = 3
    /\ sbCols = 7
    /\ currentBuffer = CreateBuffer(3, 7)
    /\ nextBuffer = CreateBuffer(3, 7)
    /\ term = StaleGrid(3, 7)
    /\ mode = "edit"
    /\ goToLineQuery = <<>>
    /\ isExiting = FALSE
    /\ isDirty = FALSE
    /\ quitConfirm = FALSE
    /\ quitTimer = FALSE
    /\ pendingCuts = <<>>
    /\ searchQuery = <<>>
    /\ searchResults = <<>>
    /\ searchResultIndex = -1
    /\ selectionAnchor = NoAnchor
    /\ searchResultMap = {}
    /\ NothingSaved
    /\ NoHistory
    /\ isCleanedUp = FALSE
    /\ op = NoOp
    /\ forceRedraw = TRUE
    /\ output = <<>>
    /\ committedBefore = NoFlush

\* ARROW_LEFT / ARROW_RIGHT: moveCursorLogically(dx), then render()
CacheKeyHorizontal ==
    /\ ~isExiting /\ mode = "edit"
    /\ \E dx \in {-1, 1} :
        /\ \E c \in {MoveCursorLogically(lines, cursorX, cursorY, dx)} :
            RenderedWithWorker(lines, screenCols, screenRows, rowOffset, c.x, c.y,
                               syntaxCache, workerReplies)
        /\ op' = Handled("move", dx, TRUE)
    /\ UNCHANGED isDirty
    /\ syntaxKeyFrame

\* "(" typed: handleCharacterKey, handleAutoPair, insertCharacter("()"),
\* which invalidates the syntax cache; then render()
CacheKeyChar ==
    /\ ~isExiting /\ mode = "edit"
    /\ CacheTextLen(lines) <= MaxCacheLen
    /\ \E e \in {HandleCharacterKey(lines, cursorX, cursorY, "(")} :
        RenderedWithWorker(e.lines, screenCols, screenRows, rowOffset, e.x, e.y,
                           {}, workerReplies)
    /\ op' = Handled("char", 0, TRUE)
    /\ isDirty' = TRUE
    /\ syntaxKeyFrame

\* ENTER: insertNewLine(), which invalidates the syntax cache; then render()
CacheKeyEnter ==
    /\ ~isExiting /\ mode = "edit"
    /\ Len(lines) < MaxLines
    /\ \E e \in {InsertNewLine(lines, cursorX, cursorY)} :
        RenderedWithWorker(e.lines, screenCols, screenRows, rowOffset, e.x, e.y,
                           {}, workerReplies)
    /\ op' = Handled("newline", 0, TRUE)
    /\ isDirty' = TRUE
    /\ syntaxKeyFrame

\* the pair deletion of the BACKSPACE case applies at the cursor
PairAround(ls, cx, cy) ==
    /\ cx >= 1 /\ cx < Len(ls[cy + 1])
    /\ ls[cy + 1][cx] \in DOMAIN PAIR_MAP
    /\ PAIR_MAP[ls[cy + 1][cx]] = ls[cy + 1][cx + 1]

\* BACKSPACE with no selection: the pair deletion keeps the syntax cache,
\* deleteBackward() invalidates it; then render()
CacheKeyBackspace ==
    /\ ~isExiting /\ mode = "edit"
    /\ \E e \in {Backspace(lines, cursorX, cursorY)} :
        RenderedWithWorker(e.lines, screenCols, screenRows, rowOffset, e.x, e.y,
                           IF PairAround(lines, cursorX, cursorY)
                           THEN syntaxCache ELSE {},
                           workerReplies)
    /\ op' = Handled(IF PairAround(lines, cursorX, cursorY)
                     THEN "pairDeleted" ELSE "deleteBackward", 0, TRUE)
    /\ isDirty' = TRUE
    /\ syntaxKeyFrame

NextCache ==
    \/ CacheKeyHorizontal
    \/ CacheKeyChar
    \/ CacheKeyEnter
    \/ CacheKeyBackspace
    \/ WorkerReply

SpecCache == InitCache /\ [][NextCache]_vars

(***************************************************************************)
(* The find flow of the session: CTRL_W, the prompt, ENTER, CTRL_G (find   *)
(* next), with CTRL_K between searches.  None of these handlers touches    *)
(* the search results except as written here.                              *)
(***************************************************************************)
searchKeyFrame ==
    /\ UNCHANGED <<goToLineQuery, isExiting, isDirty, quitConfirm, quitTimer,
                   pendingCuts, op, overlayVars, promiseVars, historyVars,
                   syntaxCache, workerReplies,
                   isCleanedUp>>
    /\ bufferUnchanged

\* CTRL_W: enterFindMode()
KeyFind ==
    /\ ~isExiting /\ mode = "edit"
    /\ mode' = "search_find"
    /\ searchQuery' = <<>>
    /\ searchResults' = <<>>
    /\ searchResultIndex' = -1
    /\ Rendered(lines, screenCols, screenRows, rowOffset, cursorX, cursorY)
    /\ searchKeyFrame

\* handleSearchKeys: a printable character, BACKSPACE, ESCAPE / CTRL_C / CTRL_Q
SearchEdit ==
    /\ ~isExiting /\ mode = "search_find"
    /\ \/ \E c \in TypedChars :
            /\ Len(searchQuery) < MaxSearch
            /\ searchQuery' = Append(searchQuery, c)
            /\ UNCHANGED <<mode, searchResults, searchResultIndex>>
       \/ /\ searchQuery' = SubSeq(searchQuery, 1, Len(searchQuery) - 1)
          /\ UNCHANGED <<mode, searchResults, searchResultIndex>>
       \/ /\ mode' = "edit"
          /\ searchQuery' = <<>>
          /\ searchResults' = <<>>
          /\ searchResultIndex' = -1
    /\ Rendered(lines, screenCols, screenRows, rowOffset, cursorX, cursorY)
    /\ searchKeyFrame

\* what findNext() leaves, followed by render()
FoundNext(results, index) ==
    \E f \in {FindNext(lines, screenCols, screenRows, rowOffset, cursorX, cursorY,
                        searchQuery, results, index)} :
        /\ mode' = f.mode
        /\ searchQuery' = f.searchQuery
        /\ searchResults' = f.searchResults
        /\ searchResultIndex' = f.searchResultIndex
        /\ Rendered(lines, screenCols, screenRows, f.to.rowOffset, f.to.x, f.to.y)

\* handleSearchKeys, ENTER in the find-only flow: executeSearch(), mode =
\* 'edit', findNext()
SearchEnter ==
    /\ ~isExiting /\ mode = "search_find"
    /\ FoundNext(ExecuteSearch(lines, searchQuery), -1)
    /\ searchKeyFrame

\* CTRL_G in 'edit' mode: findNext()
KeyFindNext ==
    /\ ~isExiting /\ mode = "edit"
    /\ FoundNext(searchResults, searchResultIndex)
    /\ searchKeyFrame

NextSearch ==
    \/ KeyFind
    \/ SearchEdit
    \/ SearchEnter
    \/ KeyFindNext
    \/ KeyCutLine
    \/ CutLineContinue

SpecSearch == Init /\ [][NextSearch]_vars


(***************************************************************************)
(* The ScreenBuffer on its own, from construction: resize, clear, put,     *)
(* putString and flush in any order, and the terminal resize event.        *)
(* output, term and committedBefore describe the latest flush for as long  *)
(* as nothing else has touched the buffer since.                           *)
(***************************************************************************)
InitSB ==
    /\ lines = << <<"a", "a">> >>
    /\ cursorX = 0
    /\ cursorY = 0
    /\ rowOffset = 0
    /\ screenRows = 0
    /\ screenCols = 0
    /\ mode = "edit"
    /\ goToLineQuery = <<>>
    /\ isExiting = FALSE
    /\ isDirty = FALSE
    /\ quitConfirm = FALSE
    /\ quitTimer = FALSE
    /\ pendingCuts = <<>>
    /\ SessionInit
    /\ frame = <<>>
    /\ physCursor = NoCursor
    /\ renderedCursor = [x |-> -1, y |-> -1]
    /\ op = NoOp
    /\ sbRows = 0
    /\ sbCols = 0
    /\ currentBuffer = <<>>
    /\ nextBuffer = <<>>
    /\ forceRedraw = TRUE
    /\ term = <<>>
    /\ output = <<>>
    /\ committedBefore = NoFlush

\* a write into the pending grid
Pending(next) ==
    /\ nextBuffer' = next
    /\ output' = <<>>
    /\ committedBefore' = NoFlush
    /\ op' = NoOp
    /\ UNCHANGED <<sbRows, sbCols, currentBuffer, forceRedraw, term>>
    /\ UNCHANGED <<editorVars, sessionVars>>

\* screenBuffer.resize(rows, cols)
Resize ==
    /\ \E sz \in SbSizes : Resized(sz[1], sz[2])
    /\ op' = Applied("resize", 0, 0)
    /\ UNCHANGED <<editorVars, sessionVars>>

\* the terminal resize event
ResizeEvent ==
    /\ \E sz \in SbSizes : HandleResizeTo(sz[1], sz[2])
    /\ op' = Applied("resize", 1, 0)

\* screenBuffer.clear()
Clear == Pending(SBClear(sbRows, sbCols, nextBuffer))

\* screenBuffer.put(x, y, char, style), inside the grid or just outside it
Put ==
    \E x \in -1..sbCols, y \in -1..sbRows, c \in PutCells :
        Pending(SBPut(sbRows, sbCols, nextBuffer, x, y, c.char, c.style))

\* screenBuffer.putString(x, y, text, style)
PutString ==
    \E x \in -1..sbCols, y \in 0..sbRows, text \in PutTexts, style \in {"", "RED"} :
        Pending(SBPutString(sbRows, sbCols, nextBuffer, x, y, text, style))

\* screenBuffer.flush(): the stream goes to the terminal
Flush ==
    /\ \E r \in {SBFlush(sbRows, sbCols, currentBuffer, nextBuffer, forceRedraw)} :
        /\ output' = r.output
        /\ currentBuffer' = r.currentBuffer
        /\ term' = Terminal(term, r.output).grid
    /\ forceRedraw' = FALSE
    /\ committedBefore' = [grid |-> currentBuffer, forceRedraw |-> forceRedraw]
    /\ op' = Applied("flush", 0, 0)
    /\ UNCHANGED <<sbRows, sbCols, nextBuffer>>
    /\ UNCHANGED <<editorVars, sessionVars>>

NextSB ==
    \/ Resize
    \/ ResizeEvent
    \/ Clear
    \/ Put
    \/ PutString
    \/ Flush

SpecSB == InitSB /\ [][NextSB]_vars

(***************************************************************************)
(* The geometry operations on their own: any document, any valid cursor,   *)
(* any viewport; each behaviour applies one operation and records it.      *)
(***************************************************************************)
InitGeom ==
    /\ lines \in Docs
    /\ screenCols \in GeomCols
    /\ screenRows \in GeomRows
    /\ rowOffset \in 0..MaxOffset
    /\ cursorY \in 0..(Len(lines) - 1)
    /\ cursorX \in 0..Len(lines[cursorY + 1])
    /\ mode \in {"edit", "goto_line"}
    /\ goToLineQuery = <<>>
    /\ isExiting = FALSE
    /\ isDirty = FALSE
    /\ quitConfirm = FALSE
    /\ quitTimer = FALSE
    /\ pendingCuts = <<>>
    /\ SessionInit
    /\ frame = <<>>
    /\ physCursor = NoCursor
    /\ renderedCursor = [x |-> -1, y |-> -1]
    /\ op = NoOp
    /\ sbRows = 0
    /\ sbCols = 0
    /\ currentBuffer = <<>>
    /\ nextBuffer = <<>>
    /\ term = <<>>
    /\ forceRedraw = TRUE
    /\ output = <<>>
    /\ committedBefore = NoFlush

\* what a geometry operation leaves alone unless it says otherwise
geomFrame ==
    /\ UNCHANGED <<lines, screenRows, screenCols, mode, goToLineQuery, isExiting,
                   isDirty, quitConfirm, quitTimer, pendingCuts>>
    /\ bufferUnchanged
    /\ sessionUnchanged

\* getLineVisualHeight(i)
GeomLineHeight ==
    /\ op.name = "none"
    /\ \E i \in 0..(Len(lines) - 1) :
        op' = Applied("getLineVisualHeight", i, GetLineVisualHeight(lines, screenCols, i))
    /\ UNCHANGED <<cursorX, cursorY, rowOffset, frame, physCursor,
                   renderedCursor>>
    /\ geomFrame

\* findCurrentVisualRowIndex()
GeomVisualRow ==
    /\ op.name = "none"
    /\ op' = Applied("findCurrentVisualRowIndex", 0,
                     FindCurrentVisualRowIndex(lines, screenCols, cursorX, cursorY))
    /\ UNCHANGED <<cursorX, cursorY, rowOffset, frame, physCursor,
                   renderedCursor>>
    /\ geomFrame

\* getLogicalFromVisual(findCurrentVisualRowIndex())
GeomRoundTrip ==
    /\ op.name = "none"
    /\ op' = Applied("getLogicalFromVisual",
                     FindCurrentVisualRowIndex(lines, screenCols, cursorX, cursorY),
                     GetLogicalFromVisual(lines, screenCols,
                        FindCurrentVisualRowIndex(lines, screenCols, cursorX, cursorY)))
    /\ UNCHANGED <<cursorX, cursorY, rowOffset, frame, physCursor,
                   renderedCursor>>
    /\ geomFrame

\* moveCursorVisually(dy): one row, or one page as PAGE_UP / PAGE_DOWN
GeomMoveVisually ==
    /\ op.name = "none"
    /\ \E dy \in {-1, 1, -screenRows, screenRows} :
        \E c \in {MoveCursorVisually(lines, screenCols, cursorX, cursorY, dy)} :
            /\ cursorX' = c.x
            /\ cursorY' = c.y
            /\ op' = Applied("moveCursorVisually", dy, 0)
    /\ UNCHANGED <<rowOffset, frame, physCursor,
                   renderedCursor>>
    /\ geomFrame

\* moveCursorLogically(dx)
GeomMoveLogically ==
    /\ op.name = "none"
    /\ \E dx \in {-1, 1} :
        \E c \in {MoveCursorLogically(lines, cursorX, cursorY, dx)} :
            /\ cursorX' = c.x
            /\ cursorY' = c.y
            /\ op' = Applied("moveCursorLogically", dx, 0)
    /\ UNCHANGED <<rowOffset, frame, physCursor,
                   renderedCursor>>
    /\ geomFrame

\* moveCursorVisually(1) followed by moveCursorVisually(-1)
GeomDownThenUp ==
    /\ op.name = "none"
    /\ \E down \in {MoveCursorVisually(lines, screenCols, cursorX, cursorY, 1)} :
        \E up \in {MoveCursorVisually(lines, screenCols, down.x, down.y, -1)} :
            /\ cursorX' = up.x
            /\ cursorY' = up.y
            /\ op' = Applied("downThenUp", 0, down)
    /\ UNCHANGED <<rowOffset, frame, physCursor,
                   renderedCursor>>
    /\ geomFrame

\* scroll()
GeomScroll ==
    /\ op.name = "none"
    /\ rowOffset' = Scroll(FindCurrentVisualRowIndex(lines, screenCols, cursorX, cursorY),
                           rowOffset, screenRows)
    /\ op' = Applied("scroll", 0, 0)
    /\ UNCHANGED <<cursorX, cursorY, frame, physCursor,
                   renderedCursor>>
    /\ geomFrame

\* render()
GeomRender ==
    /\ op.name = "none"
    /\ Rendered(lines, screenCols, screenRows, rowOffset, cursorX, cursorY)
    /\ op' = Applied("render", 0, 0)
    /\ UNCHANGED <<mode, goToLineQuery, isExiting, isDirty, quitConfirm,
                   quitTimer, pendingCuts>>
    /\ bufferUnchanged
    /\ sessionUnchanged

\* jumpToLine(lineNumber), for a line number in and just past the document
GeomJumpToLine ==
    /\ op.name = "none"
    /\ \E lineNumber \in 1..(MaxLines + 1) :
        \E j \in {JumpToLine(lines, screenCols, screenRows, lineNumber)} :
            /\ cursorX' = j.x
            /\ cursorY' = j.y
            /\ rowOffset' = j.rowOffset
            /\ op' = Applied("jumpToLine", lineNumber, 0)
    /\ mode' = "edit"
    /\ UNCHANGED <<lines, screenRows, screenCols, goToLineQuery, isExiting,
                   isDirty, quitConfirm, quitTimer, pendingCuts, frame,
                   physCursor, renderedCursor>>
    /\ bufferUnchanged
    /\ sessionUnchanged

\* jumpToResult(result), for a result of executeSearch() on the document
GeomJumpToResult ==
    /\ op.name = "none"
    /\ \E q \in {<<c>> : c \in TypedChars} :
        \E found \in {ExecuteSearch(lines, q)} :
            \E k \in 1..Len(found) :
                \E j \in {JumpToResult(lines, screenCols, screenRows, found[k])} :
                    /\ cursorX' = j.x
                    /\ cursorY' = j.y
                    /\ rowOffset' = j.rowOffset
                    /\ op' = Applied("jumpToResult", k - 1, found[k])
    /\ UNCHANGED <<frame, physCursor, renderedCursor>>
    /\ geomFrame

\* render() twice in a row: handleWorkerMessage's pass right after a key
\* handler's pass; the result records what the first pass left and drew
GeomRenderTwice ==
    /\ op.name = "none"
    /\ \E r \in {RenderResult(lines, screenCols, screenRows, rowOffset,
                               cursorX, cursorY)} :
        /\ Rendered(lines, screenCols, screenRows, r.rowOffset, r.x, r.y)
        /\ op' = Applied("renderTwice", 0, r)
    /\ UNCHANGED <<mode, goToLineQuery, isExiting, isDirty, quitConfirm,
                   quitTimer, pendingCuts>>
    /\ bufferUnchanged
    /\ sessionUnchanged

\* HOME: this.cursorX = this.findVisualRowStart()
GeomHome ==
    /\ op.name = "none"
    /\ cursorX' = FindVisualRowStart(screenCols, cursorX)
    /\ op' = Applied("home", 0, 0)
    /\ UNCHANGED <<cursorY, rowOffset, frame, physCursor, renderedCursor>>
    /\ geomFrame

\* END: this.cursorX = this.findVisualRowEnd()
GeomEnd ==
    /\ op.name = "none"
    /\ cursorX' = FindVisualRowEnd(lines, screenCols, cursorX, cursorY)
    /\ op' = Applied("end", 0, 0)
    /\ UNCHANGED <<cursorY, rowOffset, frame, physCursor, renderedCursor>>
    /\ geomFrame

\* END followed by END, END followed by HOME; the column after the first key
\* is recorded
GeomEndThen ==
    /\ op.name = "none"
    /\ \E once \in {FindVisualRowEnd(lines, screenCols, cursorX, cursorY)} :
        \/ /\ cursorX' = FindVisualRowEnd(lines, screenCols, once, cursorY)
           /\ op' = Applied("endEnd", 0, once)
        \/ /\ cursorX' = FindVisualRowStart(screenCols, once)
           /\ op' = Applied("endHome", 0, once)
    /\ UNCHANGED <<cursorY, rowOffset, frame, physCursor, renderedCursor>>
    /\ geomFrame

NextGeom ==
    \/ GeomLineHeight
    \/ GeomVisualRow
    \/ GeomRoundTrip
    \/ GeomMoveVisually
    \/ GeomMoveLogically
    \/ GeomDownThenUp
    \/ GeomScroll
    \/ GeomRender
    \/ GeomRenderTwice
    \/ GeomJumpToLine
    \/ GeomJumpToResult
    \/ GeomHome
    \/ GeomEnd
    \/ GeomEndThen

SpecGeom == InitGeom /\ [][NextGeom]_vars

(***************************************************************************)
(* matchBracket() on its own: any document of brackets, any valid cursor.  *)
(***************************************************************************)
InitBracket ==
    /\ lines \in BracketDocs
    /\ screenCols = 6
    /\ screenRows = 1
    /\ rowOffset = 0
    /\ cursorY \in 0..(Len(lines) - 1)
    /\ cursorX \in 0..Len(lines[cursorY + 1])
    /\ mode = "edit"
    /\ goToLineQuery = <<>>
    /\ isExiting = FALSE
    /\ isDirty = FALSE
    /\ quitConfirm = FALSE
    /\ quitTimer = FALSE
    /\ pendingCuts = <<>>
    /\ SessionInit
    /\ frame = <<>>
    /\ physCursor = NoCursor
    /\ renderedCursor = [x |-> -1, y |-> -1]
    /\ op = NoOp
    /\ sbRows = 0
    /\ sbCols = 0
    /\ currentBuffer = <<>>
    /\ nextBuffer = <<>>
    /\ term = <<>>
    /\ forceRedraw = TRUE
    /\ output = <<>>
    /\ committedBefore = NoFlush

\* matchBracket(): on a match the cursor moves and scroll() runs
BracketMatch ==
    /\ op.name = "none"
    /\ \E m \in {MatchBracket(lines, cursorX, cursorY)} :
        /\ cursorX' = IF m.found THEN m.x ELSE cursorX
        /\ cursorY' = IF m.found THEN m.y ELSE cursorY
        /\ rowOffset' = IF m.found
                        THEN Scroll(FindCurrentVisualRowIndex(lines, screenCols, m.x, m.y),
                                    rowOffset, screenRows)
                        ELSE rowOffset
        /\ op' = Applied("matchBracket", 0, m.found)
    /\ UNCHANGED <<frame, physCursor, renderedCursor>>
    /\ geomFrame

NextBracket == BracketMatch

SpecBracket == InitBracket /\ [][NextBracket]_vars

(***************************************************************************)
(* moveCursorByWord() on its own: any document of words, any valid cursor. *)
(***************************************************************************)
\* the rest of a new editor that has not drawn anything yet
Unstarted ==
    /\ rowOffset = 0
    /\ mode = "edit"
    /\ goToLineQuery = <<>>
    /\ isExiting = FALSE
    /\ isDirty = FALSE
    /\ quitConfirm = FALSE
    /\ quitTimer = FALSE
    /\ pendingCuts = <<>>
    /\ SessionInit
    /\ frame = <<>>
    /\ physCursor = NoCursor
    /\ renderedCursor = [x |-> -1, y |-> -1]
    /\ op = NoOp
    /\ term = <<>>
    /\ forceRedraw = TRUE
    /\ output = <<>>
    /\ committedBefore = NoFlush

\* ... with no screen buffer
Undrawn ==
    /\ Unstarted
    /\ sbRows = 0
    /\ sbCols = 0
    /\ currentBuffer = <<>>
    /\ nextBuffer = <<>>

InitWord ==
    /\ lines \in WordDocs
    /\ screenCols = 6
    /\ screenRows = 1
    /\ cursorY \in 0..(Len(lines) - 1)
    /\ cursorX \in 0..Len(lines[cursorY + 1])
    /\ Undrawn

\* moveCursorByWord('left' | 'right')
WordMove ==
    /\ op.name = "none"
    /\ \E direction \in {"left", "right"} :
        \E c \in {MoveCursorByWord(lines, cursorX, cursorY, direction)} :
            /\ cursorX' = c.x
            /\ cursorY' = c.y
            /\ op' = Applied("moveCursorByWord", direction, 0)
    /\ UNCHANGED <<rowOffset, frame, physCursor, renderedCursor>>
    /\ geomFrame

NextWord == WordMove

SpecWord == InitWord /\ [][NextWord]_vars

(***************************************************************************)
(* The navigation functions on a cursor that may lie outside the document. *)
(***************************************************************************)
InitStray ==
    /\ lines \in Docs
    /\ screenCols \in {3, 5, 7}
    /\ screenRows \in {1, 3}
    /\ cursorX \in StrayX
    /\ cursorY \in StrayY
    /\ Undrawn

\* what a call leaves behind: the cursor, the viewport and the record of the
\* call
Outcome(name, arg, cx, cy, off, raised, value) ==
    /\ op.name = "none"
    /\ cursorX' = cx
    /\ cursorY' = cy
    /\ rowOffset' = off
    /\ op' = Applied(name, arg, [raised |-> raised, value |-> value])
    /\ UNCHANGED <<frame, physCursor, renderedCursor>>
    /\ geomFrame

\* adjustCursorPosition()
StrayAdjust ==
    \E c \in {AdjustCursorPosition(lines, cursorX, cursorY)} :
        Outcome("adjustCursorPosition", 0, c.x, c.y, rowOffset, FALSE, 0)

\* the calls below are made with a cursor at or beyond the document's start
StrayMoveLogically ==
    /\ cursorX >= 0 /\ cursorY >= 0
    /\ \E dx \in {-1, 1} :
        \E r \in {TryMoveCursorLogically(lines, cursorX, cursorY, dx)} :
            Outcome("moveCursorLogically", dx, r.x, r.y, rowOffset, r.raised, 0)

StrayMoveVisually ==
    /\ cursorX >= 0 /\ cursorY >= 0
    /\ \E dy \in {-1, 1} :
        \E c \in {MoveCursorVisually(lines, screenCols, cursorX, cursorY, dy)} :
            Outcome("moveCursorVisually", dy, c.x, c.y, rowOffset, FALSE, 0)

StrayMoveByWord ==
    /\ cursorX >= 0 /\ cursorY >= 0
    /\ \E direction \in {"left", "right"} :
        \E r \in {TryMoveCursorByWord(lines, cursorX, cursorY, direction)} :
            Outcome("moveCursorByWord", direction, r.x, r.y, rowOffset, r.raised, 0)

StrayRowStart ==
    /\ cursorX >= 0 /\ cursorY >= 0
    /\ Outcome("findVisualRowStart", 0, cursorX, cursorY, rowOffset, FALSE,
               FindVisualRowStart(screenCols, cursorX))

StrayRowEnd ==
    /\ cursorX >= 0 /\ cursorY >= 0
    /\ \E r \in {TryFindVisualRowEnd(lines, screenCols, cursorX, cursorY)} :
        Outcome("findVisualRowEnd", 0, cursorX, cursorY, rowOffset, r.raised, r.value)

StrayMatchBracket ==
    /\ cursorX >= 0 /\ cursorY >= 0
    /\ \E r \in {TryMatchBracket(lines, cursorX, cursorY)} :
        Outcome("matchBracket", 0, r.x, r.y, rowOffset, r.raised, 0)

\* getLogicalFromVisual(visualY), also for a row beyond the last
StrayLogicalFromVisual ==
    /\ cursorX >= 0 /\ cursorY >= 0
    /\ \E visualY \in 0..(MaxLines * MaxLen + MaxStray) :
        \E p \in {GetLogicalFromVisual(lines, screenCols, visualY)} :
            Outcome("getLogicalFromVisual", visualY, cursorX, cursorY, rowOffset, FALSE,
                    p.logicalY)

StrayScroll ==
    /\ cursorX >= 0 /\ cursorY >= 0
    /\ Outcome("scroll", 0, cursorX, cursorY,
               Scroll(FindCurrentVisualRowIndex(lines, screenCols, cursorX, cursorY),
                      rowOffset, screenRows),
               FALSE, 0)

NextStray ==
    \/ StrayAdjust
    \/ StrayMoveLogically
    \/ StrayMoveVisually
    \/ StrayMoveByWord
    \/ StrayRowStart
    \/ StrayRowEnd
    \/ StrayMatchBracket
    \/ StrayLogicalFromVisual
    \/ StrayScroll

SpecStray == InitStray /\ [][NextStray]_vars

(***************************************************************************)
(* put() and putString() on their own: any pending grid, any coordinates   *)
(* inside the grid or up to two cells outside it.                          *)
(***************************************************************************)
InitPut ==
    /\ lines = << <<>> >>
    /\ cursorX = 0
    /\ cursorY = 0
    /\ screenRows = 0
    /\ screenCols = 0
    /\ Unstarted
    /\ \E sz \in PutSizes :
        /\ sbRows = sz[1]
        /\ sbCols = sz[2]
        /\ currentBuffer = CreateBuffer(sz[1], sz[2])
        /\ nextBuffer \in [1..sz[1] -> [1..sz[2] -> HeldCells]]

\* a write into the pending grid, with the record of the call
Written(name, x, y, text, style, next) ==
    /\ op.name = "none"
    /\ nextBuffer' = next
    /\ op' = Applied(name, [x |-> x, y |-> y, text |-> text, style |-> style], 0)
    /\ UNCHANGED <<sbRows, sbCols, currentBuffer, forceRedraw, term, output,
                   committedBefore>>
    /\ UNCHANGED <<editorVars, sessionVars>>

\* screenBuffer.put(x, y, char, style)
PutOnce ==
    \E x \in -2..(sbCols + 1), y \in -2..(sbRows + 1), c \in PutCells :
        Written("put", x, y, <<c.char>>, c.style,
                SBPut(sbRows, sbCols, nextBuffer, x, y, c.char, c.style))

\* screenBuffer.putString(x, y, text, style)
PutStringOnce ==
    \E x \in -2..(sbCols + 1), y \in -2..(sbRows + 1), n \in 0..(MaxTextLen + 1),
       style \in {"", "RED"} :
        Written("putString", x, y, SubSeq(Alphabet, 1, n), style,
                SBPutString(sbRows, sbCols, nextBuffer, x, y, SubSeq(Alphabet, 1, n), style))

NextPut == PutOnce \/ PutStringOnce

SpecPut == InitPut /\ [][NextPut]_vars

(***************************************************************************)
(* One render pass over any document with a selection, the results of a    *)
(* search and syntax colours in the cache: the styles of the characters    *)
(* drawn.                                                                  *)
(***************************************************************************)
\* the ranges of the search results, as the search result map holds them
RangesOf(results, query) ==
    {[y |-> results[i].y, start |-> results[i].x, end |-> results[i].x + Len(query)] :
        i \in DOMAIN results}

InitStyle ==
    /\ lines \in StyleDocs
    /\ screenCols = 7
    /\ screenRows = 2
    /\ rowOffset = 0
    /\ cursorY \in 0..(Len(lines) - 1)
    /\ cursorX \in 0..Len(lines[cursorY + 1])
    /\ mode = "edit"
    /\ goToLineQuery = <<>>
    /\ isExiting = FALSE
    /\ isDirty = FALSE
    /\ quitConfirm = FALSE
    /\ quitTimer = FALSE
    /\ pendingCuts = <<>>
    /\ \E ay \in 0..(Len(lines) - 1) : \E ax \in 0..Len(lines[ay + 1]) :
          selectionAnchor \in {NoAnchor, Anchor(ax, ay)}
    /\ searchQuery \in StyleQueries
    /\ searchResults = ExecuteSearch(lines, searchQuery)
    /\ searchResultIndex \in -1..(Len(searchResults) - 1)
    /\ searchResultMap \in {{}, RangesOf(searchResults, searchQuery)}
    /\ NothingSaved
    /\ NoHistory
    /\ syntaxCache \in SUBSET {ParsedEntry(i - 1, lines[i]) : i \in 1..Len(lines)}
    /\ workerReplies = <<>>
    /\ isCleanedUp = FALSE
    /\ frame = <<>>
    /\ physCursor = NoCursor
    /\ renderedCursor = [x |-> -1, y |-> -1]
    /\ op = NoOp
    /\ sbRows = 0
    /\ sbCols = 0
    /\ currentBuffer = <<>>
    /\ nextBuffer = <<>>
    /\ term = <<>>
    /\ forceRedraw = TRUE
    /\ output = <<>>
    /\ committedBefore = NoFlush

\* the fields the character loop of render() reads
Editor ==
    [cursorX |-> cursorX, cursorY |-> cursorY, selectionAnchor |-> selectionAnchor,
     searchQuery |-> searchQuery, searchResults |-> searchResults,
     searchResultIndex |-> searchResultIndex, searchResultMap |-> searchResultMap,
     syntaxCache |-> syntaxCache]

\* render(), with the syntax worker loaded
StyleRender ==
    /\ op.name = "none"
    /\ Rendered(lines, screenCols, screenRows, rowOffset, cursorX, cursorY)
    /\ \E st \in {RenderLookups([cache |-> syntaxCache, posted |-> workerReplies],
                                 TRUE, lines, frame', 1)} :
        /\ syntaxCache' = st.cache
        /\ workerReplies' = st.posted
        /\ op' = Applied("render", 0,
                         DrawnStyles([Editor EXCEPT !.cursorX = cursorX',
                                                    !.cursorY = cursorY',
                                                    !.syntaxCache = st.cache],
                                     frame'))
    /\ UNCHANGED <<mode, goToLineQuery, isExiting, isDirty, quitConfirm,
                   quitTimer, pendingCuts>>
    /\ UNCHANGED <<searchQuery, searchResults, searchResultIndex, overlayVars,
                   promiseVars, historyVars, isCleanedUp>>
    /\ bufferUnchanged

NextStyle == StyleRender

SpecStyle == InitStyle /\ [][NextStyle]_vars

(***************************************************************************)
(* Save and exit: handleSave (editor.keys.ts) and saveFile                 *)
(* (editor.search.ts).  saveFile joins the lines, starts the write and     *)
(* suspends; keys go on being handled until the write completes.           *)
(***************************************************************************)
\* the documents a saving session starts from
SaveDocs == {ls \in Docs : \A i \in 1..Len(ls) : Len(ls[i]) <= 1}

\* new CliEditor(content, path).run() on a screen that holds the document
InitSave ==
    /\ \E ls \in SaveDocs :
        \E r \in {RenderResult(ls, 7, 2, 0, 0, 0)} :
            /\ lines = ls
            /\ screenCols = 7
            /\ screenRows = 2
            /\ cursorX = r.x
            /\ cursorY = r.y
            /\ rowOffset = r.rowOffset
            /\ frame = r.frame
            /\ physCursor = r.physCursor
            /\ renderedCursor = [x |-> 0, y |-> 0]
    /\ mode = "edit"
    /\ goToLineQuery = <<>>
    /\ isExiting = FALSE
    /\ isDirty = FALSE
    /\ quitConfirm = FALSE
    /\ quitTimer = FALSE
    /\ pendingCuts = <<>>
    /\ SessionInit
    /\ op = NoOp
    /\ sbRows = 0
    /\ sbCols = 0
    /\ currentBuffer = <<>>
    /\ nextBuffer = <<>>
    /\ term = <<>>
    /\ forceRedraw = TRUE
    /\ output = <<>>
    /\ committedBefore = NoFlush

\* what a key of the saving session leaves alone
saveKeyFrame ==
    /\ UNCHANGED <<mode, goToLineQuery, isExiting, quitConfirm, quitTimer,
                   pendingCuts, op>>
    /\ bufferUnchanged
    /\ UNCHANGED <<searchQuery, searchResults, searchResultIndex, overlayVars,
                   historyVars, syntaxCache, workerReplies, isCleanedUp>>

\* CTRL_S in 'edit' mode: handleSave() runs saveFile() up to
\* `await fs.writeFile(this.filepath, content)`, then the handler renders
KeySave ==
    /\ ~isExiting /\ mode = "edit"
    /\ Len(pendingSaves) < MaxSaves
    /\ pendingSaves' = Append(pendingSaves, Join(lines))
    /\ Rendered(lines, screenCols, screenRows, rowOffset, cursorX, cursorY)
    /\ UNCHANGED <<isDirty, settled, stored>>
    /\ saveKeyFrame

\* a write completes or fails: the rest of saveFile(), then the rest of
\* handleSave()
SaveContinue ==
    /\ \E i \in 1..Len(pendingSaves), written \in BOOLEAN :
        /\ pendingSaves' = SubSeq(pendingSaves, 1, i - 1)
                               \o SubSeq(pendingSaves, i + 1, Len(pendingSaves))
        /\ stored' = IF written THEN Append(stored, pendingSaves[i]) ELSE stored
        /\ isDirty' = (isDirty /\ ~written)
        /\ quitConfirm' = (quitConfirm /\ ~written)
    /\ IF ~isExiting
       THEN /\ isExiting' = TRUE
            /\ settled' = Append(settled, Resolution(TRUE, lines))
       ELSE UNCHANGED <<isExiting, settled>>
    /\ renderUnchanged
    /\ UNCHANGED <<mode, goToLineQuery, quitTimer, pendingCuts, op>>
    /\ bufferUnchanged
    /\ UNCHANGED <<searchQuery, searchResults, searchResultIndex, overlayVars,
                   historyVars, syntaxCache, workerReplies, isCleanedUp>>

\* a printable character typed into the saving session
SaveKeyChar ==
    /\ ~isExiting /\ mode = "edit"
    /\ \E ch \in TypedChars :
        /\ Len(lines[cursorY + 1]) + 1 <= MaxSaveLen
        /\ LET e == HandleCharacterKey(lines, cursorX, cursorY, ch)
           IN  /\ Rendered(e.lines, screenCols, screenRows, rowOffset, e.x, e.y)
               /\ isDirty' = (isDirty \/ e.lines # lines)
    /\ UNCHANGED promiseVars
    /\ saveKeyFrame

\* BACKSPACE in the saving session
SaveKeyBackspace ==
    /\ ~isExiting /\ mode = "edit"
    /\ LET e == Backspace(lines, cursorX, cursorY)
       IN  /\ \A i \in 1..Len(e.lines) : Len(e.lines[i]) <= MaxSaveLen
           /\ Rendered(e.lines, screenCols, screenRows, rowOffset, e.x, e.y)
    /\ isDirty' = TRUE
    /\ UNCHANGED promiseVars
    /\ saveKeyFrame

\* CTRL_Q in 'goto_line' mode: handleGoToLineKeys calls cancel(), then the
\* handler renders
GoToLineQuit ==
    /\ ~isExiting /\ mode = "goto_line"
    /\ mode' = "edit"
    /\ goToLineQuery' = <<>>
    /\ Rendered(lines, screenCols, screenRows, rowOffset, cursorX, cursorY)
    /\ op' = Handled("CTRL_Q", 0, TRUE)
    /\ UNCHANGED <<isExiting, isDirty, quitConfirm, quitTimer, pendingCuts>>
    /\ bufferUnchanged
    /\ sessionUnchanged

NextSave ==
    \/ SaveKeyChar
    \/ KeyGoToLine
    \/ GoToLineQuit
    \/ SaveKeyBackspace
    \/ KeySave
    \/ SaveContinue
    \/ KeyQuit
    \/ QuitConfirmTimeout
    \/ CleanupDone

SpecSave == InitSave /\ [][NextSave]_vars

(***************************************************************************)
(* Undo and redo: history.ts (HistoryManager) and editor.history.ts.       *)
(***************************************************************************)
\* getCurrentState(): a copy of the lines and the cursor
CurrentState(ls, cx, cy) == [lines |-> ls, cursorX |-> cx, cursorY |-> cy]

\* the HistoryManager of the editor
History ==
    [undoHistory |-> undoHistory, redoHistory |-> redoHistory,
     historyLimit |-> historyLimit]
\* the HistoryManager is h
HistoryIs(h) ==
    /\ undoHistory = h.undoHistory
    /\ redoHistory = h.redoHistory
    /\ historyLimit = h.historyLimit
\* new HistoryManager(historyLimit)
NewHistory(limit) ==
    [undoHistory |-> <<>>, redoHistory |-> <<>>, historyLimit |-> limit]
\* the HistoryManager becomes h
HistoryBecomes(h) ==
    /\ undoHistory' = h.undoHistory
    /\ redoHistory' = h.redoHistory
    /\ historyLimit' = h.historyLimit

\* all of s but its last element (what stays after pop())
Front(s) == SubSeq(s, 1, Len(s) - 1)
\* the value a call returns: null, or a state
Returned_null == [null |-> TRUE, state |-> CurrentState(<<>>, 0, 0)]
Returned_state(state) == [null |-> FALSE, state |-> state]

\* saveState(state) that never drops the oldest state
HMSaveState_noLimit(h, state) ==
    [h EXCEPT !.redoHistory = <<>>, !.undoHistory = Append(h.undoHistory, state)]

\* saveState(state) that keeps the redo stack
HMSaveState_keepRedo(h, state) ==
    LET pushed == Append(h.undoHistory, state)
    IN  [h EXCEPT !.undoHistory = IF Len(pushed) > h.historyLimit
                                  THEN Tail(pushed)
                                  ELSE pushed]

\* HistoryManager.saveState(state)
HMSaveState(h, state) ==
    LET pushed == Append(h.undoHistory, state)
    IN  [h EXCEPT !.redoHistory = <<>>,
                  !.undoHistory = IF Len(pushed) > h.historyLimit
                                  THEN Tail(pushed)
                                  ELSE pushed]

\* HistoryManager.undo(currentState): the manager it leaves and what it returns
HMUndo(h, currentState) ==
    IF Len(h.undoHistory) = 0
    THEN [history |-> h, returned |-> Returned_null]
    ELSE [history |-> [h EXCEPT !.undoHistory = Front(h.undoHistory),
                                !.redoHistory = Append(h.redoHistory, currentState)],
          returned |-> Returned_state(h.undoHistory[Len(h.undoHistory)])]

\* redo(currentState) that drops the current state instead of pushing it
HMRedo_dropCurrent(h, currentState) ==
    IF Len(h.redoHistory) = 0
    THEN [history |-> h, returned |-> Returned_null]
    ELSE [history |-> [h EXCEPT !.redoHistory = Front(h.redoHistory)],
          returned |-> Returned_state(h.redoHistory[Len(h.redoHistory)])]

\* HistoryManager.redo(currentState)
HMRedo(h, currentState) ==
    IF Len(h.redoHistory) = 0
    THEN [history |-> h, returned |-> Returned_null]
    ELSE [history |-> [h EXCEPT !.redoHistory = Front(h.redoHistory),
                                !.undoHistory = Append(h.undoHistory, currentState)],
          returned |-> Returned_state(h.redoHistory[Len(h.redoHistory)])]

\* loadState(state): the lines and the cursor of the state, the cursor
\* clamped by adjustCursorPosition()
LoadState(state) ==
    LET c == AdjustCursorPosition(state.lines, state.cursorX, state.cursorY)
    IN  [lines |-> state.lines, x |-> c.x, y |-> c.y]

\* the documents an editing session with undo starts from
HistoryDocs == {ls \in Docs : Len(ls) = 1 /\ Len(ls[1]) <= 1}

\* new CliEditor(content, path): the constructor saves the initial state;
\* run(): the first render()
InitHistory ==
    /\ \E ls \in HistoryDocs :
        \E r \in {RenderResult(ls, 7, 2, 0, 0, 0)} :
            /\ lines = ls
            /\ screenCols = 7
            /\ screenRows = 2
            /\ cursorX = r.x
            /\ cursorY = r.y
            /\ rowOffset = r.rowOffset
            /\ frame = r.frame
            /\ physCursor = r.physCursor
            /\ renderedCursor = [x |-> 0, y |-> 0]
            /\ HistoryIs(HMSaveState(NewHistory(100), CurrentState(ls, 0, 0)))
    /\ mode = "edit"
    /\ goToLineQuery = <<>>
    /\ isExiting = FALSE
    /\ isDirty = FALSE
    /\ quitConfirm = FALSE
    /\ quitTimer = FALSE
    /\ pendingCuts = <<>>
    /\ SessionFields
    /\ op = NoOp
    /\ sbRows = 0
    /\ sbCols = 0
    /\ currentBuffer = <<>>
    /\ nextBuffer = <<>>
    /\ term = <<>>
    /\ forceRedraw = TRUE
    /\ output = <<>>
    /\ committedBefore = NoFlush

\* what a key of the session with undo leaves alone
historyKeyFrame ==
    /\ UNCHANGED <<mode, goToLineQuery, isExiting, quitConfirm, quitTimer,
                   pendingCuts>>
    /\ bufferUnchanged
    /\ UNCHANGED <<searchQuery, searchResults, searchResultIndex, overlayVars,
                   promiseVars, syntaxCache, workerReplies, isCleanedUp>>

\* a key that edits: the edit e, then saveState(), then render(); op records
\* the state the key found
Edited(name, e) ==
    /\ Len(undoHistory) < MaxHistory
    /\ HistoryBecomes(HMSaveState(History, CurrentState(e.lines, e.x, e.y)))
    /\ Rendered(e.lines, screenCols, screenRows, rowOffset, e.x, e.y)
    /\ op' = Applied(name, 0, CurrentState(lines, cursorX, cursorY))

\* a printable character: handleCharacterKey(ch), saveState(), render()
HistoryKeyChar ==
    /\ ~isExiting /\ mode = "edit"
    /\ \E ch \in TypedChars :
        /\ Len(lines[cursorY + 1]) + 1 <= MaxSaveLen
        /\ LET e == HandleCharacterKey(lines, cursorX, cursorY, ch)
           IN  /\ Edited("type", e)
               /\ isDirty' = (isDirty \/ e.lines # lines)
    /\ historyKeyFrame

\* BACKSPACE: deleteBackward(), saveState(), render()
HistoryKeyBackspace ==
    /\ ~isExiting /\ mode = "edit"
    /\ Edited("delete", Backspace(lines, cursorX, cursorY))
    /\ isDirty' = TRUE
    /\ historyKeyFrame

\* ARROW_LEFT / ARROW_RIGHT: moveCursorLogically(dx), render(); no saveState
HistoryKeyHorizontal ==
    /\ ~isExiting /\ mode = "edit"
    /\ \E dx \in {-1, 1} :
        LET c == MoveCursorLogically(lines, cursorX, cursorY, dx)
        IN  /\ Rendered(lines, screenCols, screenRows, rowOffset, c.x, c.y)
            /\ op' = Applied("move", dx, CurrentState(lines, cursorX, cursorY))
    /\ UNCHANGED <<isDirty, historyVars>>
    /\ historyKeyFrame

\* undo() or redo() of the editor with the outcome u of the HistoryManager,
\* then render(); op records how many states the manager returned and the
\* state the key found
Restored(name, u) ==
    /\ HistoryBecomes(u.history)
    /\ op' = Applied(name, IF u.returned.null THEN 0 ELSE 1,
                     CurrentState(lines, cursorX, cursorY))
    /\ IF u.returned.null
       THEN /\ Rendered(lines, screenCols, screenRows, rowOffset, cursorX, cursorY)
            /\ UNCHANGED isDirty
       ELSE /\ \E s \in {LoadState(u.returned.state)} :
                Rendered(s.lines, screenCols, screenRows, rowOffset, s.x, s.y)
            /\ isDirty' = TRUE

\* CTRL_Z: undo()
HistoryUndo ==
    /\ ~isExiting /\ mode = "edit"
    /\ Restored("undo", HMUndo(History, CurrentState(lines, cursorX, cursorY)))
    /\ historyKeyFrame

\* CTRL_Y: redo()
HistoryRedo ==
    /\ ~isExiting /\ mode = "edit"
    /\ Restored("redo", HMRedo(History, CurrentState(lines, cursorX, cursorY)))
    /\ historyKeyFrame

NextHistory ==
    \/ HistoryKeyChar
    \/ HistoryKeyBackspace
    \/ HistoryKeyHorizontal
    \/ HistoryUndo
    \/ HistoryRedo

SpecHistory == InitHistory /\ [][NextHistory]_vars

(***************************************************************************)
(* A HistoryManager on its own (history.ts), called as history.test.ts     *)
(* calls it: saveState, undo and redo in any order.                        *)
(***************************************************************************)
\* the states handed to saveState
ManagerStates == {CurrentState(<<ln>>, 0, 0) : ln \in LinesUpTo(MaxLimit)}
\* the state handed to undo and redo as the current one
ManagerCurrent == CurrentState(<<<<"c">>>>, 1, 0)

\* one call: its name, the state handed to it, the manager it found and the
\* value it returned (saveState returns nothing)
Call(name, state, before, returned) ==
    [name |-> name, state |-> state, before |-> before, returned |-> returned]
\* the last two calls, after one more
Logged(log, call) ==
    IF Len(log) = 2 THEN <<log[2], call>> ELSE Append(log, call)

\* the record of the calls made so far: name is "new" before any call,
\* "saveState" after saveState calls only, "undo" after saveState calls
\* followed by undo calls only, and "other" after any other order; the
\* states saved, the values the undo and redo calls returned, and the last
\* two calls
Called(name, saved, returned, log) ==
    [name |-> name, arg |-> Len(saved) + Len(returned),
     from |-> [x |-> 0, y |-> 0, rowOffset |-> 0],
     result |-> [saved |-> saved, returned |-> returned, log |-> log]]

\* the states a caller hands to undo and redo as the current one: a state of
\* its own, or the state the last call returned
ManagerCurrents ==
    {ManagerCurrent} \cup
        {op.result.returned[i].state :
            i \in {j \in {Len(op.result.returned)} :
                        j >= 1 /\ ~op.result.returned[j].null}}

\* new HistoryManager(limit)
InitManager ==
    /\ \E limit \in 0..MaxLimit : HistoryIs(NewHistory(limit))
    /\ op = Called("new", <<>>, <<>>, <<>>)
    /\ lines = <<<<>>>>
    /\ cursorX = 0
    /\ cursorY = 0
    /\ screenCols = 7
    /\ screenRows = 2
    /\ rowOffset = 0
    /\ frame = <<>>
    /\ physCursor = NoCursor
    /\ renderedCursor = [x |-> -1, y |-> -1]
    /\ mode = "edit"
    /\ goToLineQuery = <<>>
    /\ isExiting = FALSE
    /\ isDirty = FALSE
    /\ quitConfirm = FALSE
    /\ quitTimer = FALSE
    /\ pendingCuts = <<>>
    /\ SessionFields
    /\ sbRows = 0
    /\ sbCols = 0
    /\ currentBuffer = <<>>
    /\ nextBuffer = <<>>
    /\ term = <<>>
    /\ forceRedraw = TRUE
    /\ output = <<>>
    /\ committedBefore = NoFlush

\* what a call on the HistoryManager leaves alone
managerFrame ==
    /\ renderUnchanged
    /\ UNCHANGED <<mode, goToLineQuery, isExiting, isDirty, quitConfirm,
                   quitTimer, pendingCuts>>
    /\ bufferUnchanged
    /\ UNCHANGED <<searchQuery, searchResults, searchResultIndex, overlayVars,
                   promiseVars, syntaxCache, workerReplies, isCleanedUp>>

\* history.saveState(state)
ManagerSave ==
    /\ op.arg < MaxCalls
    /\ \E state \in ManagerStates :
        /\ HistoryBecomes(HMSaveState(History, state))
        /\ op' = Called(IF op.name \in {"new", "saveState"}
                        THEN "saveState" ELSE "other",
                        Append(op.result.saved, state), op.result.returned,
                        Logged(op.result.log,
                               Call("saveState", state, History, Returned_null)))
    /\ managerFrame

\* history.undo(current)
ManagerUndo ==
    /\ op.arg < MaxCalls
    /\ \E current \in ManagerCurrents :
        \E u \in {HMUndo(History, current)} :
            /\ HistoryBecomes(u.history)
            /\ op' = Called(IF op.name \in {"new", "saveState", "undo"}
                            THEN "undo" ELSE "other",
                            op.result.saved,
                            Append(op.result.returned, u.returned),
                            Logged(op.result.log,
                                   Call("undo", current, History, u.returned)))
    /\ managerFrame

\* history.redo(current)
ManagerRedo ==
    /\ op.arg < MaxCalls
    /\ \E current \in ManagerCurrents :
        \E u \in {HMRedo(History, current)} :
            /\ HistoryBecomes(u.history)
            /\ op' = Called("other", op.result.saved,
                            Append(op.result.returned, u.returned),
                            Logged(op.result.log,
                                   Call("redo", current, History, u.returned)))
    /\ managerFrame

NextManager ==
    \/ ManagerSave
    \/ ManagerUndo
    \/ ManagerRedo

SpecManager == InitManager /\ [][NextManager]_vars

(***************************************************************************)
(* The selection range: editor.selection.ts, getNormalizedSelection and    *)
(* isPositionInSelection applied to any anchor, cursor and position.       *)
(***************************************************************************)
\* the documents a selection is made in
SelectDocs == {ls \in Docs : \A i \in 1..Len(ls) : Len(ls[i]) <= MaxSelectLen}

\* any document, any valid cursor, no anchor or any valid anchor
InitSelect ==
    /\ lines \in SelectDocs
    /\ screenCols = 7
    /\ screenRows = 2
    /\ rowOffset = 0
    /\ cursorY \in 0..(Len(lines) - 1)
    /\ cursorX \in 0..Len(lines[cursorY + 1])
    /\ mode = "edit"
    /\ goToLineQuery = <<>>
    /\ isExiting = FALSE
    /\ isDirty = FALSE
    /\ quitConfirm = FALSE
    /\ quitTimer = FALSE
    /\ pendingCuts = <<>>
    /\ \E ay \in 0..(Len(lines) - 1) : \E ax \in 0..Len(lines[ay + 1]) :
          selectionAnchor \in {NoAnchor, Anchor(ax, ay)}
    /\ searchQuery = <<>>
    /\ searchResults = <<>>
    /\ searchResultIndex = -1
    /\ searchResultMap = {}
    /\ NothingSaved
    /\ NoHistory
    /\ syntaxCache = {}
    /\ workerReplies = <<>>
    /\ isCleanedUp = FALSE
    /\ frame = <<>>
    /\ physCursor = NoCursor
    /\ renderedCursor = [x |-> -1, y |-> -1]
    /\ op = NoOp
    /\ sbRows = 0
    /\ sbCols = 0
    /\ currentBuffer = <<>>
    /\ nextBuffer = <<>>
    /\ term = <<>>
    /\ forceRedraw = TRUE
    /\ output = <<>>
    /\ committedBefore = NoFlush

\* what a call on the selection leaves alone
selectFrame ==
    /\ renderUnchanged
    /\ UNCHANGED <<mode, goToLineQuery, isExiting, isDirty, quitConfirm,
                   quitTimer, pendingCuts>>
    /\ bufferUnchanged
    /\ sessionUnchanged

\* getNormalizedSelection()
SelectNormalized ==
    /\ op.name = "none"
    /\ op' = Applied("getNormalizedSelection", 0,
                     [range |-> GetNormalizedSelection(selectionAnchor,
                                                       cursorX, cursorY),
                      y |-> 0, x |-> 0, inside |-> FALSE])
    /\ selectFrame

\* isPositionInSelection(y, x, range) on the range of getNormalizedSelection()
SelectContains ==
    /\ op.name = "none"
    /\ selectionAnchor.set
    /\ \E y \in -1..Len(lines), x \in -1..(MaxSelectLen + 1) :
        \E range \in {GetNormalizedSelection(selectionAnchor, cursorX, cursorY)} :
            op' = Applied("isPositionInSelection", 0,
                          [range |-> range, y |-> y, x |-> x,
                           inside |-> IsPositionInSelection(y, x, range)])
    /\ selectFrame

NextSelect ==
    \/ SelectNormalized
    \/ SelectContains

SpecSelect == InitSelect /\ [][NextSelect]_vars

(***************************************************************************)
(* Selection across edits, undo and redo: Ctrl+Arrow sets the anchor       *)
(* (editor.keys.ts), deleteSelectedText reads the lines of the range       *)
(* (editor.selection.ts), loadState replaces the lines                     *)
(* (editor.history.ts).  An error raised in a key handler is caught        *)
(* nowhere: the process ends with it.                                      *)
(***************************************************************************)
\* deleteSelectedText() with an anchor set: this.lines[start.y].substring and
\* this.lines[end.y].substring raise a TypeError on a line that does not
\* exist, before anything is changed
DeleteSelectedText(ls, anchor, cx, cy) ==
    LET range == GetNormalizedSelection(anchor, cx, cy)
        start == range.start
        end == range.end
    IN  IF Undefined(ls, start.y) \/ Undefined(ls, end.y)
        THEN [raised |-> TRUE, lines |-> ls, x |-> cx, y |-> cy]
        ELSE LET joined == Slice(ls[start.y + 1], 0, start.x)
                            \o Slice(ls[end.y + 1], end.x, Len(ls[end.y + 1]))
                 kept == [k \in 1..(Len(ls) - (end.y - start.y)) |->
                            IF k <= start.y THEN ls[k]
                            ELSE IF k = start.y + 1 THEN joined
                            ELSE ls[k + (end.y - start.y)]]
             IN  [raised |-> FALSE, lines |-> kept, x |-> start.x, y |-> start.y]

\* a key handler has raised an error
Crashed == op.name = "TypeError"

\* what a key of the session with a selection leaves alone
anchorKeyFrame ==
    /\ UNCHANGED <<mode, goToLineQuery, isExiting, quitConfirm, quitTimer,
                   pendingCuts>>
    /\ bufferUnchanged
    /\ UNCHANGED <<searchQuery, searchResults, searchResultIndex,
                   searchResultMap, promiseVars, syntaxCache, workerReplies,
                   isCleanedUp>>

\* CTRL_ARROW_LEFT / CTRL_ARROW_RIGHT: startOrUpdateSelection(),
\* moveCursorLogically(dx), render()
AnchorSelect ==
    /\ ~Crashed /\ ~isExiting /\ mode = "edit"
    /\ selectionAnchor' = IF selectionAnchor.set THEN selectionAnchor
                          ELSE Anchor(cursorX, cursorY)
    /\ \E dx \in {-1, 1} :
        LET c == MoveCursorLogically(lines, cursorX, cursorY, dx)
        IN  /\ Rendered(lines, screenCols, screenRows, rowOffset, c.x, c.y)
            /\ op' = Applied("select", dx, CurrentState(lines, cursorX, cursorY))
    /\ UNCHANGED <<isDirty, historyVars>>
    /\ anchorKeyFrame

\* ARROW_LEFT / ARROW_RIGHT: cancelSelection(), moveCursorLogically(dx),
\* render()
AnchorMove ==
    /\ ~Crashed /\ ~isExiting /\ mode = "edit"
    /\ selectionAnchor' = NoAnchor
    /\ \E dx \in {-1, 1} :
        LET c == MoveCursorLogically(lines, cursorX, cursorY, dx)
        IN  /\ Rendered(lines, screenCols, screenRows, rowOffset, c.x, c.y)
            /\ op' = Applied("move", dx, CurrentState(lines, cursorX, cursorY))
    /\ UNCHANGED <<isDirty, historyVars>>
    /\ anchorKeyFrame

\* ENTER: insertNewLine() (the anchor stays), saveState(), render()
AnchorEnter ==
    /\ ~Crashed /\ ~isExiting /\ mode = "edit"
    /\ Len(lines) < MaxLines
    /\ Edited("newline", InsertNewLine(lines, cursorX, cursorY))
    /\ isDirty' = TRUE
    /\ UNCHANGED selectionAnchor
    /\ anchorKeyFrame

\* BACKSPACE: deleteSelectedText() with an anchor, else as without one; then
\* saveState(), render().  An error leaves the handler at once.
AnchorBackspace ==
    /\ ~Crashed /\ ~isExiting /\ mode = "edit"
    /\ IF selectionAnchor.set
       THEN \E d \in {DeleteSelectedText(lines, selectionAnchor, cursorX, cursorY)} :
                IF d.raised
                THEN /\ op' = Applied("TypeError", 0,
                                      CurrentState(lines, cursorX, cursorY))
                     /\ renderUnchanged
                     /\ UNCHANGED <<selectionAnchor, isDirty, historyVars>>
                ELSE /\ Edited("delete", d)
                     /\ selectionAnchor' = NoAnchor
                     /\ isDirty' = TRUE
       ELSE /\ Edited("delete", Backspace(lines, cursorX, cursorY))
            /\ UNCHANGED selectionAnchor
            /\ isDirty' = TRUE
    /\ anchorKeyFrame

\* CTRL_Z, CTRL_Y: undo(), redo(); the anchor stays
AnchorUndo == ~Crashed /\ HistoryUndo
AnchorRedo == ~Crashed /\ HistoryRedo

NextAnchor ==
    \/ AnchorSelect
    \/ AnchorMove
    \/ AnchorEnter
    \/ AnchorBackspace
    \/ AnchorUndo
    \/ AnchorRedo

SpecAnchor == InitHistory /\ [][NextAnchor]_vars

(***************************************************************************)
(* The geometry as the specification states it, for the current document   *)
(* and screen width.                                                       *)
(***************************************************************************)
\* the content width W
W == IF screenCols - gutterWidth >= 1 THEN screenCols - gutterWidth ELSE 1
\* max(1, ceil(L / W))
HeightOf(L) == Max(1, Ceil(L, W))
LineLen(y) == Len(lines[y + 1])
\* visual rows of the lines above line y
RowsAbove(y) == SumTo([i \in 0..(y - 1) |-> HeightOf(LineLen(i))], y)
TotalVisualRows == RowsAbove(Len(lines))
\* the global visual row of position (y, x)
RowOf(x, y) == RowsAbove(y) + (x \div W)
\* the logical line and chunk that own global visual row r
OwnerOf(r) ==
    CHOOSE p \in {[logicalY |-> y, visualYOffset |-> k] :
                    y \in 0..(Len(lines) - 1), k \in 0..MaxLen} :
        /\ p.visualYOffset < HeightOf(LineLen(p.logicalY))
        /\ RowsAbove(p.logicalY) + p.visualYOffset = r
Clamp(v, lo, hi) == Max(lo, Min(v, hi))
\* x is a positive multiple of W
ChunkBoundary(x) == x > 0 /\ x % W = 0

(***************************************************************************)
(* Claims about the geometry operations (SpecGeom).                        *)
(***************************************************************************)
\* C5: for a valid cursor (y, x) whose column x is not a positive multiple
\* of W, getLogicalFromVisual(findCurrentVisualRowIndex()) returns
\* logicalY = y and visualYOffset = floor(x / W).
C5_RoundTrip ==
    (op.name = "getLogicalFromVisual" /\ ~ChunkBoundary(cursorX))
        => op.result = [logicalY |-> cursorY, visualYOffset |-> cursorX \div W]

\* the round trip of a cursor on the second row of a wrapped second line
\* that follows a wrapped first line
C5_Witness ==
    /\ op.name = "getLogicalFromVisual"
    /\ ~ChunkBoundary(cursorX)
    /\ cursorY = 1 /\ cursorX > W /\ W > 1
    /\ HeightOf(LineLen(0)) > 1
    /\ op.result = [logicalY |-> 1, visualYOffset |-> 1]

SumOfHeights ==
    SumTo([i \in 0..(Len(lines) - 1) |-> GetLineVisualHeight(lines, screenCols, i)],
          Len(lines))
CursorAtEnd == cursorY = Len(lines) - 1 /\ cursorX = LineLen(cursorY)

\* C6 as stated: the sum of getLineVisualHeight over all lines equals what
\* findCurrentVisualRowIndex returns with the cursor just past the last
\* character of the last line.
C6_SumEqualsEndRow ==
    (op.name = "findCurrentVisualRowIndex" /\ CursorAtEnd)
        => op.result = SumOfHeights

\* C6: with the cursor just past the last character of the last line,
\* findCurrentVisualRowIndex returns the sum of getLineVisualHeight over all
\* lines minus one, except when the last line's length is a positive
\* multiple of W, where it returns the sum itself.
C6_EndRow ==
    (op.name = "findCurrentVisualRowIndex" /\ CursorAtEnd)
        => op.result = SumOfHeights
                        - (IF ChunkBoundary(LineLen(Len(lines) - 1)) THEN 0 ELSE 1)

\* the end of a two-line document whose last line wraps and ends inside a row
C6_Witness ==
    /\ op.name = "findCurrentVisualRowIndex"
    /\ CursorAtEnd
    /\ Len(lines) = 2 /\ LineLen(1) > W /\ ~ChunkBoundary(LineLen(1))
    /\ op.result = SumOfHeights - 1

Origin == op.from
OriginOffset == Origin.x % W
BackAtOrigin == cursorX = Origin.x /\ cursorY = Origin.y

\* C7 as stated: from any valid origin not on the last visual row,
\* moveCursorVisually(+1) then moveCursorVisually(-1) returns to the origin
\* whenever no line is shorter than the origin's offset (cursorX mod W).
C7_DownUpReturns ==
    (/\ op.name = "downThenUp"
     /\ RowOf(Origin.x, Origin.y) < TotalVisualRows - 1
     /\ \A y \in 0..(Len(lines) - 1) : LineLen(y) >= OriginOffset)
        => BackAtOrigin

\* the row below the origin's row holds at least the origin's offset
RowBelowReaches ==
    LET p == OwnerOf(RowOf(Origin.x, Origin.y) + 1)
    IN  p.visualYOffset * W + OriginOffset <= LineLen(p.logicalY)

\* C7: from a valid origin not on the last visual row whose column is not
\* the end of its line at a positive multiple of W, moveCursorVisually(+1)
\* then moveCursorVisually(-1) returns to the origin whenever the chunk on
\* the row below reaches the origin's offset (cursorX mod W).
C7_DownUpReturnsWhenReached ==
    (/\ op.name = "downThenUp"
     /\ RowOf(Origin.x, Origin.y) < TotalVisualRows - 1
     /\ ~(ChunkBoundary(Origin.x) /\ Origin.x = LineLen(Origin.y))
     /\ RowBelowReaches)
        => BackAtOrigin

\* down and up again from an offset inside the first row of a wrapped line,
\* through the next line
C7_Witness ==
    /\ op.name = "downThenUp"
    /\ Origin.y = 0 /\ OriginOffset > 0 /\ Origin.x > W
    /\ op.result.y = 1 /\ op.result.x = OriginOffset
    /\ BackAtOrigin

\* C8: moveCursorVisually(dy) from a valid cursor lands on the logical line
\* and chunk of visual row clamp(current row + dy, 0, totalVisualRows - 1),
\* at column min(length of that line, chunk start + (cursorX mod W)); so a
\* move down inside a wrapped line stays on the line, and a page move past
\* either end lands on the first or last visual row.
C8_VisualMoveTarget ==
    op.name = "moveCursorVisually" =>
        LET current == RowOf(Origin.x, Origin.y)
            target == Clamp(current + op.arg, 0, TotalVisualRows - 1)
            p == OwnerOf(target)
        IN  /\ cursorY = p.logicalY
            /\ cursorX = Min(LineLen(p.logicalY), p.visualYOffset * W + OriginOffset)
            /\ (op.arg = 1 /\ (Origin.x \div W) + 1 < HeightOf(LineLen(Origin.y)))
                    => cursorY = Origin.y /\ cursorX \div W = (Origin.x \div W) + 1
            /\ (op.arg < 0 /\ current + op.arg <= 0) => cursorY = 0 /\ cursorX < W
            /\ (op.arg > 0 /\ current + op.arg >= TotalVisualRows - 1)
                    => /\ cursorY = Len(lines) - 1
                       /\ cursorX >= (HeightOf(LineLen(cursorY)) - 1) * W

\* a page down from the first row of a wrapped last line, past the end of
\* the document: the cursor lands on the last row, at the origin's offset
C8_Witness ==
    /\ op.name = "moveCursorVisually"
    /\ op.arg = 2
    /\ RowOf(Origin.x, Origin.y) + op.arg > TotalVisualRows - 1
    /\ Origin.y = 1 /\ Origin.x = 1 /\ W = 2
    /\ cursorY = 1 /\ LineLen(1) = 3 /\ cursorX = 3

\* C9: scroll(), for rowOffset >= 0, screenRows >= 1 and cursor visual row
\* r, sets rowOffset to r when r < rowOffset, to r - screenRows + 1 when
\* r >= rowOffset + screenRows, and leaves it unchanged otherwise; the
\* result satisfies rowOffset <= r < rowOffset + screenRows and
\* rowOffset >= 0.
C9_Scroll ==
    (op.name = "scroll" /\ Origin.rowOffset >= 0 /\ screenRows >= 1) =>
        LET r == RowOf(cursorX, cursorY)
        IN  /\ rowOffset = IF r < Origin.rowOffset THEN r
                           ELSE IF r >= Origin.rowOffset + screenRows
                           THEN r - screenRows + 1
                           ELSE Origin.rowOffset
            /\ rowOffset <= r
            /\ r < rowOffset + screenRows
            /\ rowOffset >= 0

\* a scroll that snapped a two-row window down to a cursor below it
C9_Witness ==
    /\ op.name = "scroll"
    /\ screenRows = 2
    /\ RowOf(cursorX, cursorY) >= Origin.rowOffset + screenRows
    /\ rowOffset = RowOf(cursorX, cursorY) - 1
    /\ rowOffset > Origin.rowOffset

\* C10: with W = max(1, screenCols - gutterWidth), getLineVisualHeight of a
\* line of length L returns max(1, ceil(L / W)), and the chunk render draws
\* for row k of the line spans columns [k*W, min(L, (k+1)*W)); an empty line
\* has one row with an empty span.
C10_HeightAndChunks ==
    /\ op.name = "getLineVisualHeight"
        => /\ op.result = Max(1, Ceil(LineLen(op.arg), W))
           /\ LineLen(op.arg) = 0 => op.result = 1
    /\ op.name = "render"
        => \A i \in 1..Len(frame) :
            frame[i].kind = "text" =>
                /\ frame[i].v < Max(1, Ceil(LineLen(frame[i].logicalY), W))
                /\ frame[i].chunkStart = frame[i].v * W
                /\ frame[i].chunkEnd
                        = Min(LineLen(frame[i].logicalY), (frame[i].v + 1) * W)
                /\ LineLen(frame[i].logicalY) = 0
                        => frame[i].chunkStart = 0 /\ frame[i].chunkEnd = 0

\* a frame that shows both rows of a line of length 3 at width 2: chunks
\* [0,2) and [2,3)
C10_Witness ==
    /\ op.name = "render"
    /\ W = 2
    /\ Len(frame) = 2
    /\ frame[1].kind = "text" /\ frame[2].kind = "text"
    /\ frame[1].logicalY = frame[2].logicalY
    /\ LineLen(frame[1].logicalY) = 3
    /\ frame[1].chunkStart = 0 /\ frame[1].chunkEnd = 2
    /\ frame[2].chunkStart = 2 /\ frame[2].chunkEnd = 3

\* C11: moveCursorLogically(+1) increments the column before the end of the
\* line, goes to column 0 of the next line at the end of a line that is not
\* the last and does nothing at the end of the last line;
\* moveCursorLogically(-1) decrements a column > 0, goes to the end of the
\* previous line from column 0 of a line that is not the first and does
\* nothing at (0,0).  The document is not changed.
C11_LogicalMove ==
    [][op'.name = "moveCursorLogically" =>
        /\ lines' = lines
        /\ op'.arg = 1 =>
            IF cursorX < LineLen(cursorY)
            THEN cursorX' = cursorX + 1 /\ cursorY' = cursorY
            ELSE IF cursorY < Len(lines) - 1
            THEN cursorX' = 0 /\ cursorY' = cursorY + 1
            ELSE cursorX' = cursorX /\ cursorY' = cursorY
        /\ op'.arg = -1 =>
            IF cursorX > 0
            THEN cursorX' = cursorX - 1 /\ cursorY' = cursorY
            ELSE IF cursorY > 0
            THEN cursorX' = LineLen(cursorY - 1) /\ cursorY' = cursorY - 1
            ELSE cursorX' = cursorX /\ cursorY' = cursorY]_vars

\* a move left from column 0 of the second line to the end of a non-empty
\* first line
C11_Witness ==
    /\ op.name = "moveCursorLogically"
    /\ op.arg = -1
    /\ Origin.y = 1 /\ Origin.x = 0
    /\ cursorY = 0 /\ cursorX = LineLen(0) /\ cursorX > 0

\* the screen rows (1-based indices into frame) on which a caret cell is drawn
CaretRows == {i \in 1..Len(frame) : frame[i].caretCol >= 0}

\* C12 as stated: after a render with a valid cursor the caret cell is drawn
\* on one of the screenRows visible rows, and the physical cursor position
\* emitted by render is the screen row and content column of that cell.
C12_CaretAtCursor ==
    op.name = "render" =>
        /\ CaretRows # {}
        /\ physCursor.shown
        /\ \A i \in CaretRows :
            /\ physCursor.row = i - 1
            /\ physCursor.col = frame[i].caretCol

\* a render with the cursor at the end of a line that fills its last row:
\* the caret cell is drawn after the last chunk, the physical cursor is sent
\* to column 0 of the row below
C12_CaretAndCursorApart ==
    /\ op.name = "render"
    /\ ChunkBoundary(cursorX) /\ cursorX = LineLen(cursorY)
    /\ \E i \in CaretRows :
        /\ frame[i].caretCol = W
        /\ physCursor.shown
        /\ physCursor.row = i
        /\ physCursor.col = 0

\* the terminal cell of the caret is the cell the cursor sequence names
CaretUnderPhysicalCursor ==
    op.name = "render" =>
        \A i \in CaretRows :
            physCursor.shown =>
                /\ physCursor.displayY = screenStartRow + (i - 1)
                /\ physCursor.displayX = frame[i].textCol + frame[i].caretCol

\* screen row i (0-based) of the frame shows visual row r of the document:
\* the chunk of the line that owns r, its gutter numbered on the first chunk
\* only, or the filler glyph when r is past the last visual row
ShowsVisualRow(i, r) ==
    IF r < TotalVisualRows
    THEN /\ frame[i + 1].kind = "text"
         /\ frame[i + 1].logicalY = OwnerOf(r).logicalY
         /\ frame[i + 1].v = OwnerOf(r).visualYOffset
         /\ frame[i + 1].gutter =
                IF OwnerOf(r).visualYOffset = 0 THEN OwnerOf(r).logicalY + 1 ELSE 0
    ELSE frame[i + 1].kind = "filler"

\* C13 as stated: render draws exactly screenRows rows, and screen row i
\* shows visual row rowOffset + i: its line and chunk with the line number in
\* the gutter on the first chunk only, or the filler glyph when that visual
\* row is past the end of the document.
C13_RowsShown ==
    op.name = "render" =>
        /\ Len(frame) = screenRows
        /\ \A i \in 0..(screenRows - 1) : ShowsVisualRow(i, rowOffset + i)

\* a render whose viewport starts past the last visual row: the cursor is at
\* the end of a last line that fills its last row, and the first screen row
\* repeats the last chunk of the document
C13_LastChunkRepeated ==
    /\ op.name = "render"
    /\ rowOffset = TotalVisualRows
    /\ CursorAtEnd /\ ChunkBoundary(cursorX)
    /\ frame[1].kind = "text"
    /\ frame[1].logicalY = Len(lines) - 1
    /\ frame[1].v = HeightOf(LineLen(Len(lines) - 1)) - 1

\* the rows shown when the viewport starts on a visual row of the document
RowsShownInsideDocument ==
    (op.name = "render" /\ rowOffset < TotalVisualRows) =>
        /\ Len(frame) = screenRows
        /\ \A i \in 0..(screenRows - 1) : ShowsVisualRow(i, rowOffset + i)

\* C15: two consecutive render passes with nothing in between emit the same
\* rows and the same physical cursor position, and the second pass leaves
\* rowOffset, the cursor and the document as the first pass left them.
C15_RenderIdempotent ==
    [][op'.name = "renderTwice" =>
        /\ frame' = op'.result.frame
        /\ physCursor' = op'.result.physCursor
        /\ rowOffset' = op'.result.rowOffset
        /\ cursorX' = op'.result.x /\ cursorY' = op'.result.y
        /\ lines' = lines]_vars

\* two passes of which the first had to scroll down by more than one row to
\* a cursor on a wrapped line, and drew the caret
C15_Witness ==
    /\ op.name = "renderTwice"
    /\ rowOffset > Origin.rowOffset + 1
    /\ cursorX > W
    /\ physCursor.shown
    /\ CaretRows # {}
    /\ frame = op.result.frame

\* C19: jumpToLine(n) for a 1-based n puts the cursor at column 0 of line
\* min(max(n - 1, 0), lineCount - 1), sets rowOffset to
\* max(0, v - floor(screenRows / 2)) where v is the visual row of that
\* position, returns the mode to 'edit' and leaves the document unchanged.
C19_JumpToLine ==
    [][op'.name = "jumpToLine" =>
        /\ cursorX' = 0
        /\ cursorY' = Min(Max(op'.arg - 1, 0), Len(lines) - 1)
        /\ rowOffset' = Max(0, RowsAbove(cursorY') - (screenRows \div 2))
        /\ mode' = "edit"
        /\ lines' = lines]_vars

\* a jump from the Go-to-Line prompt to the second line, below a wrapped first
\* line, on a screen of three rows: the line is centred
C19_Witness ==
    /\ op.name = "jumpToLine" /\ op.arg = 2
    /\ Len(lines) = 2 /\ HeightOf(LineLen(0)) = 3
    /\ screenRows = 3
    /\ Origin.x > 0 /\ Origin.y = 0
    /\ cursorX = 0 /\ cursorY = 1
    /\ rowOffset = 2
    /\ mode = "edit"

Jumped == op.name \in {"jumpToLine", "jumpToResult"}

\* C18 as stated: after jumpToLine and after jumpToResult, rowOffset lies in
\* [0, max(0, totalVisualRows - screenRows)] and the visual row of the
\* target, where the cursor now is, lies inside the viewport.
C18_JumpInRange ==
    Jumped =>
        /\ rowOffset >= 0
        /\ rowOffset <= Max(0, TotalVisualRows - screenRows)
        /\ rowOffset <= RowOf(cursorX, cursorY)
        /\ RowOf(cursorX, cursorY) < rowOffset + screenRows

\* a jump to the last line of a document of three or more visual rows on a
\* screen of three rows: the target is centred and the viewport ends past
\* the document
C18_CentredPastEnd ==
    /\ op.name = "jumpToLine"
    /\ screenRows = 3
    /\ cursorY = Len(lines) - 1
    /\ RowOf(cursorX, cursorY) = TotalVisualRows - 1
    /\ rowOffset = TotalVisualRows - 2
    /\ rowOffset + screenRows > TotalVisualRows

\* what holds after a jump: rowOffset is not negative and the target's row
\* is inside the viewport
JumpTargetVisible ==
    Jumped =>
        /\ rowOffset >= 0
        /\ rowOffset <= RowOf(cursorX, cursorY)
        /\ RowOf(cursorX, cursorY) < rowOffset + screenRows

(***************************************************************************)
(* Claims about the ScreenBuffer (SpecSB).                                 *)
(***************************************************************************)
Flushed == op.name = "flush"
SettledFlush == Flushed /\ ~committedBefore.forceRedraw
DirtyFlush == Flushed /\ committedBefore.forceRedraw
Cells == {<<y, x>> : y \in 0..(sbRows - 1), x \in 0..(sbCols - 1)}
CellAt(grid, c) == grid[c[1] + 1][c[2] + 1]
\* the cells whose pending (char, style) differed from committed at the flush
Differing == {c \in Cells : CellAt(nextBuffer, c) # CellAt(committedBefore.grid, c)}
\* what the stream of the flush draws
Sent == Terminal(StaleGrid(sbRows, sbCols), output)
CharsSent == SelectSeq(output, LAMBDA tok : tok.t = "char")
MovesSent == SelectSeq(output, LAMBDA tok : tok.t = "move")

\* C2: a flush in the settled state writes a cell exactly for the cells
\* whose pending (char, style) differs from committed: nothing at all when
\* the frame is identical to the committed one, and when exactly one cell
\* differs only that cell's character at that cell's coordinates.
C2_FlushWritesDiff ==
    SettledFlush =>
        /\ Sent.written = Differing
        /\ Sent.chars = Cardinality(Differing)
        /\ Differing = {} => output = <<>>
        /\ \A c \in Cells :
            Differing = {c} =>
                /\ CharsSent = <<Char(CellAt(nextBuffer, c).char)>>
                /\ MovesSent = <<MoveTo(c[1], c[2])>>

\* a settled flush of a three-cell row in which only the middle cell changed
C2_Witness ==
    /\ SettledFlush
    /\ sbCols = 3
    /\ Differing = {<<0, 1>>}
    /\ CellAt(committedBefore.grid, <<0, 0>>) # DefaultCell
    /\ Len(CharsSent) = 1

\* a settled flush of a frame identical to the committed one
C2_NothingToWrite ==
    /\ SettledFlush
    /\ nextBuffer # CreateBuffer(sbRows, sbCols)
    /\ Differing = {}
    /\ output = <<>>

\* C3: after every flush the committed grid equals the pending grid and
\* both equal what the terminal shows, cell by cell; and a committed cell
\* changed during the flush only if the stream wrote that cell.
C3_GridsAgree ==
    Flushed =>
        /\ \A c \in Cells :
            /\ CellAt(currentBuffer, c) = CellAt(nextBuffer, c)
            /\ CellAt(term, c) = CellAt(nextBuffer, c)
            /\ CellAt(currentBuffer, c) # CellAt(committedBefore.grid, c)
                    => c \in Sent.written
        /\ DOMAIN term = DOMAIN nextBuffer
        /\ DOMAIN currentBuffer = DOMAIN nextBuffer

\* a settled flush that wrote the two outer cells of a three-cell row in two
\* styles and left the middle one alone
C3_Witness ==
    /\ SettledFlush
    /\ sbCols = 3
    /\ Sent.written = {<<0, 0>>, <<0, 2>>}
    /\ CellAt(term, <<0, 0>>).style = "RED"
    /\ CellAt(term, <<0, 2>>).style = ""
    /\ CellAt(term, <<0, 1>>) = CellAt(committedBefore.grid, <<0, 1>>)
    /\ CellAt(term, <<0, 1>>) # DefaultCell

\* the cells drawn by the stream written in the step
\* C17: flush never leaks a style: every character it writes is shown with
\* exactly the style of its own pending cell, and no style is in force on
\* the terminal when flush returns.
C17_NoStyleLeak ==
    Flushed =>
        /\ \A c \in Sent.written :
                CellAt(Sent.grid, c).style = CellAt(nextBuffer, c).style
        /\ Sent.style = {}

\* a flush that wrote a styled cell, then a cell of another style, then a
\* cell with the empty style
C17_Witness ==
    /\ Flushed
    /\ sbCols = 3
    /\ Sent.written = {<<0, 0>>, <<0, 1>>, <<0, 2>>}
    /\ CellAt(nextBuffer, <<0, 0>>).style = "RED"
    /\ CellAt(nextBuffer, <<0, 1>>).style = "INVALID"
    /\ CellAt(nextBuffer, <<0, 2>>).style = ""
    /\ CellAt(Sent.grid, <<0, 1>>).style = "INVALID"

WrittenNext == Terminal(StaleGrid(sbRows, sbCols), output').written

\* C4: the buffer is dirty initially and after every resize, the one of the
\* terminal resize event included, and settled otherwise: a flush always
\* leaves it settled, and clear, put and putString leave it as it is.  A
\* flush in the dirty state writes every cell of the rows x cols grid
\* whatever the pending grid holds; a flush in the settled state writes only
\* the cells that differ.
C4_DirtySettled ==
    /\ forceRedraw = TRUE
    /\ [][/\ op'.name = "resize" => forceRedraw'
          /\ op'.name = "flush" =>
                /\ ~forceRedraw'
                /\ forceRedraw => WrittenNext = Cells
                /\ ~forceRedraw =>
                    WrittenNext = {c \in Cells :
                                    CellAt(nextBuffer, c) # CellAt(currentBuffer, c)}
          /\ op'.name = "none" => forceRedraw' = forceRedraw]_vars

\* the first flush after a terminal resize event to one row of three
\* columns, with a pending grid that still holds default cells
C4_Witness ==
    /\ DirtyFlush
    /\ sbRows = 1 /\ sbCols = 3 /\ screenCols = 3
    /\ \E c \in Cells : CellAt(nextBuffer, c) = DefaultCell
    /\ \E c \in Cells : CellAt(nextBuffer, c).style = "INVALID"
    /\ Sent.written = Cells
    /\ ~forceRedraw

(***************************************************************************)
(* Claims about the editor session.                                        *)
(***************************************************************************)
\* the visual row containing the cursor
CursorVisualRow == FindCurrentVisualRowIndex(lines, screenCols, cursorX, cursorY)

\* no key handler is suspended: every event so far was handled to completion
EventsCompleted == pendingCuts = <<>>

\* C1: after any sequence of key and resize events, each handled to
\* completion while the session is not exiting and screenRows >= 1, the
\* visual row containing the cursor lies inside the viewport:
\* rowOffset <= cursorVisualRow < rowOffset + screenRows.
C1_CursorInViewport ==
    (EventsCompleted /\ ~isExiting /\ screenRows >= 1)
        => (rowOffset <= CursorVisualRow /\ CursorVisualRow < rowOffset + screenRows)

(***************************************************************************)
(* Claims about the find flow (SpecSearch).                                *)
(***************************************************************************)
\* every step of the session but the continuation of cutLine() is a handler
\* that ends with render()
EndsWithRender == Len(pendingCuts') >= Len(pendingCuts)

\* C14 as stated: a call to render leaves the document and the cursor
\* (cursorX, cursorY) exactly as they were when it was entered.
C14_RenderKeepsCursor ==
    [][EndsWithRender =>
        /\ cursorX' = renderedCursor'.x
        /\ cursorY' = renderedCursor'.y]_vars

\* a render entered with the cursor on a line that no longer exists: find
\* next has jumped to a search result recorded before the line was cut
C14_CursorMovedByRender ==
    /\ renderedCursor.y >= Len(lines)
    /\ cursorY = Len(lines) - 1
    /\ searchResultIndex >= 0
    /\ searchResults[searchResultIndex + 1].y = renderedCursor.y

(***************************************************************************)
(* Claims about leaving the session (SpecExit).                            *)
(***************************************************************************)
\* handleWorkerMessage is the one handler that takes a reply of the worker;
\* it runs a render pass unless isCleanedUp is set
WorkerPassRuns == workerReplies' # workerReplies /\ ~isCleanedUp

\* C16 as stated: once isExiting is set it never clears, no render pass
\* runs, neither the cursor nor rowOffset changes, and a syntax-colour reply
\* that arrives is discarded rather than stored.
C16_NothingAfterExit ==
    [][isExiting =>
        /\ isExiting'
        /\ ~WorkerPassRuns
        /\ cursorX' = cursorX /\ cursorY' = cursorY /\ rowOffset' = rowOffset
        /\ syntaxCache' = syntaxCache]_vars

(***************************************************************************)
(* Claims about bracket matching (SpecBracket).                            *)
(***************************************************************************)
\* the character at position p = <<y, x>>, "" past the end of the line
CharAt(p) == IF p[2] < LineLen(p[1]) THEN lines[p[1] + 1][p[2] + 1] ELSE ""
DocPositions == {p \in (0..(Len(lines) - 1)) \X (0..(MaxBracketLen - 1)) :
                    p[2] < LineLen(p[1])}
\* q comes later in the document than p
Later(p, q) == q[1] > p[1] \/ (q[1] = p[1] /\ q[2] > p[2])
\* the positions after p up to q, and the positions before p down to q
UpTo(p, q) == {r \in DocPositions : Later(p, r) /\ ~Later(q, r)}
DownTo(p, q) == {r \in DocPositions : Later(r, p) /\ ~Later(r, q)}
Count(S, c) == Cardinality({r \in S : CharAt(r) = c})
\* the depth counter at q of a scan that starts at the opening bracket at p,
\* and of one that starts at the closing bracket at p
DepthAfter(p, q) ==
    1 + Count(UpTo(p, q), CharAt(p)) - Count(UpTo(p, q), Pairs(CharAt(p)))
DepthBefore(p, q) ==
    1 + Count(DownTo(p, q), CharAt(p)) - Count(DownTo(p, q), RevPairs(CharAt(p)))
\* where the scan from p ends: the positions at which the counter is 0 with no
\* such position nearer to p; empty when the counter never reaches 0 and when
\* the character at p is not a bracket
MatchesOf(p) ==
    IF Pairs(CharAt(p)) # ""
    THEN {q \in DocPositions :
            /\ Later(p, q) /\ DepthAfter(p, q) = 0
            /\ \A r \in UpTo(p, q) \ {q} : DepthAfter(p, r) # 0}
    ELSE IF RevPairs(CharAt(p)) # ""
    THEN {q \in DocPositions :
            /\ Later(q, p) /\ DepthBefore(p, q) = 0
            /\ \A r \in DownTo(p, q) \ {q} : DepthBefore(p, r) # 0}
    ELSE {}

\* C20: matchBracket moves the cursor from an opening bracket to the first
\* later position of its closer at which the depth counter (1 at the start,
\* +1 on the same opener, -1 on the closer, other kinds ignored) reaches 0,
\* from a closing bracket backward symmetrically, and leaves the cursor
\* unmoved when there is no such position or no bracket under the cursor;
\* the document is never changed.
C20_MatchBracket ==
    [][op'.name = "matchBracket" =>
        /\ lines' = lines
        /\ IF MatchesOf(<<cursorY, cursorX>>) = {}
           THEN cursorX' = cursorX /\ cursorY' = cursorY
           ELSE <<cursorY', cursorX'>> \in MatchesOf(<<cursorY, cursorX>>)]_vars

\* a match from a closing bracket on the second line back to its opener on
\* the first, over a nested pair and a bracket of another kind
C20_Witness ==
    /\ op.name = "matchBracket"
    /\ Origin.y = 1 /\ CharAt(<<1, Origin.x>>) = ")"
    /\ cursorY = 0 /\ cursorX = 0
    /\ \E r \in DownTo(<<1, Origin.x>>, <<0, 0>>) : CharAt(r) = "["
    /\ \E r \in DownTo(<<1, Origin.x>>, <<0, 0>>) : DepthBefore(<<1, Origin.x>>, r) = 2

(***************************************************************************)
(* Claims about word movement (SpecWord).                                  *)
(***************************************************************************)
Least(S) == CHOOSE n \in S : \A m \in S : n <= m
Greatest(S) == CHOOSE n \in S : \A m \in S : n >= m
\* the columns of line y, from column a to column b, that hold a space, and
\* those that hold another character
SpacesIn(y, a, b) == {c \in a..b : c < LineLen(y) /\ lines[y + 1][c + 1] = " "}
LettersIn(y, a, b) == {c \in a..b : c < LineLen(y) /\ lines[y + 1][c + 1] # " "}
\* the first character of the next word: the first non-space after the next
\* run of spaces, or the line end
NextWordStart(y, x) ==
    LET spaces == SpacesIn(y, x, LineLen(y) - 1)
        runAt == IF spaces = {} THEN LineLen(y) ELSE Least(spaces)
        letters == LettersIn(y, runAt, LineLen(y) - 1)
    IN  IF letters = {} THEN LineLen(y) ELSE Least(letters)
\* the first character of the word that holds the last non-space character
\* before column x, or column 0
WordStartBefore(y, x) ==
    LET letters == LettersIn(y, 0, x - 1)
        last == Greatest(letters)
    IN  IF letters = {} THEN 0
        ELSE Least({c \in 0..last : SpacesIn(y, c, last) = {}})

\* C21: moveCursorByWord('right') from a column before the line end moves to
\* the first character of the next word, or to the line end when there is
\* none; 'left' from a column greater than 0 moves to the first character of
\* the word at or before the cursor, or to column 0; at the line end 'right'
\* lands on column 0 of the next line and at column 0 'left' lands on the end
\* of the previous line, both being no-ops at the end and start of the
\* document; the document is not changed.
C21_WordMove ==
    [][op'.name = "moveCursorByWord" =>
        /\ lines' = lines
        /\ IF op'.arg = "right"
           THEN IF cursorX < LineLen(cursorY)
                THEN cursorY' = cursorY /\ cursorX' = NextWordStart(cursorY, cursorX)
                ELSE IF cursorY < Len(lines) - 1
                     THEN cursorY' = cursorY + 1 /\ cursorX' = 0
                     ELSE cursorY' = cursorY /\ cursorX' = cursorX
           ELSE IF cursorX > 0
                THEN cursorY' = cursorY /\ cursorX' = WordStartBefore(cursorY, cursorX)
                ELSE IF cursorY > 0
                     THEN cursorY' = cursorY - 1 /\ cursorX' = LineLen(cursorY - 1)
                     ELSE cursorY' = cursorY /\ cursorX' = cursorX]_vars

\* a move right from inside a word, over two spaces, onto the next word
C21_Witness ==
    /\ op.name = "moveCursorByWord" /\ op.arg = "right"
    /\ lines[1] = <<"a", " ", " ", "a">>
    /\ Origin.y = 0 /\ Origin.x = 0
    /\ cursorY = 0 /\ cursorX = 3

(***************************************************************************)
(* Claims about cursors outside the document (SpecStray).                  *)
(***************************************************************************)
\* C22: adjustCursorPosition clamps any cursor, however far out of range, to
\* a valid position: afterwards 0 <= cursorY <= lineCount - 1 and
\* 0 <= cursorX <= the length of line cursorY, each coordinate being the
\* nearest value of its range; a cursor that is already valid is unchanged,
\* and the document is not touched.
C22_Clamped ==
    [][op'.name = "adjustCursorPosition" =>
        /\ lines' = lines
        /\ cursorY' = Clamp(cursorY, 0, Len(lines) - 1)
        /\ cursorX' = Clamp(cursorX, 0, Len(lines[cursorY' + 1]))
        /\ ValidCursor(lines, cursorX', cursorY')
        /\ (ValidCursor(lines, cursorX, cursorY)
                => cursorX' = cursorX /\ cursorY' = cursorY)]_vars

\* a cursor two lines below a two-line document and beyond the end of its
\* last line, clamped to the end of the last line
C22_Witness ==
    /\ op.name = "adjustCursorPosition"
    /\ Len(lines) = 2 /\ LineLen(1) = 1
    /\ Origin.y = 3 /\ Origin.x = 4
    /\ cursorY = 1 /\ cursorX = 1

\* the navigation functions named by C23
NavigationCalls ==
    {"moveCursorLogically", "moveCursorVisually", "moveCursorByWord",
     "findVisualRowStart", "findVisualRowEnd", "matchBracket",
     "getLogicalFromVisual", "scroll"}

\* C23: called with a cursor beyond the document's bounds, a visual row
\* beyond the total or a content width of 0 or less, each of
\* moveCursorLogically, moveCursorVisually, moveCursorByWord,
\* findVisualRowStart, findVisualRowEnd, matchBracket, getLogicalFromVisual
\* and scroll completes without raising an error and leaves a cursor that
\* adjustCursorPosition accepts or clamps to a valid one.
C23_Total ==
    op.name \in NavigationCalls =>
        /\ ~op.result.raised
        /\ \E c \in {AdjustCursorPosition(lines, cursorX, cursorY)} :
              ValidCursor(lines, c.x, c.y)

\* the part of C23 that holds: moveCursorVisually, findVisualRowStart,
\* getLogicalFromVisual and scroll raise no error, whatever the cursor, the
\* row asked for and the content width, and every call, raising or not,
\* leaves a cursor that adjustCursorPosition clamps to a valid one
NeverRaising ==
    /\ op.name \in {"moveCursorVisually", "findVisualRowStart",
                     "getLogicalFromVisual", "scroll"} => ~op.result.raised
    /\ op.name \in NavigationCalls =>
          \E c \in {AdjustCursorPosition(lines, cursorX, cursorY)} :
              ValidCursor(lines, c.x, c.y)
\* the calls that raise are made with cursorY at or beyond the line count
RaisedBeyondLastLine ==
    (op.name \in NavigationCalls /\ op.result.raised) => Origin.y >= Len(lines)

(***************************************************************************)
(* Claims about put and putString (SpecPut).                               *)
(***************************************************************************)
\* the character of the text of the call that falls on column x of row y, as
\* an index into the text, or 0 when none does
TextIndexAt(call, y, x) ==
    IF y = call.y /\ x - call.x >= 0 /\ x - call.x < Len(call.text)
    THEN x - call.x + 1 ELSE 0

\* C24: put with coordinates outside [0, cols) x [0, rows) changes no cell of
\* the pending or the committed grid; put inside changes that one cell;
\* putString writes exactly the characters of its text that fall inside the
\* grid, each at its own column, and drops the rest.
C24_OutsideIgnored ==
    [][op'.name \in {"put", "putString"} =>
        /\ currentBuffer' = currentBuffer
        /\ sbRows' = sbRows /\ sbCols' = sbCols
        /\ \A y \in 0..(sbRows - 1), x \in 0..(sbCols - 1) :
              nextBuffer'[y + 1][x + 1] =
                  IF TextIndexAt(op'.arg, y, x) = 0 THEN nextBuffer[y + 1][x + 1]
                  ELSE [char |-> op'.arg.text[TextIndexAt(op'.arg, y, x)],
                        style |-> op'.arg.style]]_vars

\* a put outside the grid has left every cell as it was
C24_PutIgnored ==
    [][(op'.name = "put" /\ (op'.arg.x < 0 \/ op'.arg.x >= sbCols
                               \/ op'.arg.y < 0 \/ op'.arg.y >= sbRows))
          => nextBuffer' = nextBuffer /\ currentBuffer' = currentBuffer]_vars

\* putString of "ABC" from one column left of a two-column grid: "B" and "C"
\* are written, "A" is dropped
C24_Witness ==
    /\ op.name = "putString"
    /\ op.arg.x = -1 /\ op.arg.y = 0 /\ op.arg.text = <<"A", "B", "C">>
    /\ nextBuffer[1][1].char = "B" /\ nextBuffer[1][2].char = "C"

\* a put one row below the grid
C24_WitnessPut ==
    /\ op.name = "put" /\ op.arg.y = sbRows /\ op.arg.x = 0
    /\ nextBuffer[1][1].char = "Z"

(***************************************************************************)
(* Claims about the styles of the characters drawn (SpecStyle).            *)
(***************************************************************************)
\* the overlays in their order of precedence, highest first, and the style
\* each gives a character
Precedence == <<"selection", "caret", "current match", "other match", "syntax">>
\* the position (y, x) lies from p up to, not including, q
Within(p, q, y, x) ==
    /\ (y > p.y \/ (y = p.y /\ x >= p.x))
    /\ (y < q.y \/ (y = q.y /\ x < q.x))
Covers(overlay, y, x) ==
    IF overlay = "selection"
    THEN /\ selectionAnchor.set
         /\ \/ Within(selectionAnchor, [x |-> cursorX, y |-> cursorY], y, x)
            \/ Within([x |-> cursorX, y |-> cursorY], selectionAnchor, y, x)
    ELSE IF overlay = "caret" THEN y = cursorY /\ x = cursorX
    ELSE IF overlay = "current match"
    THEN /\ searchResultIndex >= 0
         /\ \E m \in {searchResults[searchResultIndex + 1]} :
               m.y = y /\ x \in m.x..(m.x + Len(searchQuery) - 1)
    ELSE IF overlay = "other match"
    THEN \E m \in searchResultMap : m.y = y /\ x \in m.start..(m.end - 1)
    ELSE ColorAt(syntaxCache, y, x) # ""
StyleGiven(overlay, y, x) ==
    IF overlay = "current match" THEN "INVERT_UNDERLINE"
    ELSE IF overlay = "syntax" THEN ColorAt(syntaxCache, y, x)
    ELSE "INVERT"
\* the rank of the highest overlay that covers (y, x), 0 when none does
Highest(y, x) ==
    IF \A i \in 1..Len(Precedence) : ~Covers(Precedence[i], y, x) THEN 0
    ELSE Least({i \in 1..Len(Precedence) : Covers(Precedence[i], y, x)})

\* C25: every character a render pass draws has the style of the
\* highest-precedence overlay that covers it (active selection, cursor caret,
\* current search match, any other search match, syntax colour), and the
\* plain style when none covers it; a lower-precedence overlay never shows
\* through.
C25_HighestOverlay ==
    op.name = "render" =>
        \A d \in op.result :
            d.style = IF Highest(d.y, d.x) = 0 THEN ""
                      ELSE StyleGiven(Precedence[Highest(d.y, d.x)], d.y, d.x)

\* a bracket with a syntax colour that is the current search match, away from
\* the caret and outside any selection, is drawn as the current match
C25_Witness ==
    /\ op.name = "render"
    /\ \E d \in op.result :
        /\ Covers("syntax", d.y, d.x) /\ Covers("other match", d.y, d.x)
        /\ Covers("current match", d.y, d.x)
        /\ ~Covers("caret", d.y, d.x) /\ ~Covers("selection", d.y, d.x)
        /\ d.style = "INVERT_UNDERLINE"
\* a quoted character with a syntax colour under no other overlay
C25_WitnessColour ==
    /\ op.name = "render"
    /\ \E d \in op.result : Highest(d.y, d.x) = 5 /\ d.style = "GREEN"

(***************************************************************************)
(* Claims about the syntax worker (SpecSyntax).                            *)
(***************************************************************************)
\* a step in which a reply of the worker is handled, the requests that stay
\* in the queue over a step, and those the step posts
ReplyTaken == Len(workerReplies') < Len(workerReplies)
Kept == IF ReplyTaken THEN Tail(workerReplies) ELSE workerReplies
NewlyPosted == SubSeq(workerReplies', Len(Kept) + 1, Len(workerReplies'))
\* line i is drawn by the step's render pass, and it is looked up in a cache
\* that has no entry for it: the cache was invalidated by an edit, or held
\* none and the reply handled in this step brings none
DrawnNext(i) == \E k \in 1..Len(frame') : frame'[k].kind = "text" /\ frame'[k].logicalY = i
Missed(i) ==
    \/ lines' # lines
    \/ /\ ~CacheHas(syntaxCache, i)
       /\ ~(ReplyTaken /\ Head(workerReplies).lineIndex = i)
\* the lookups of a step never wait: a line drawn on a miss gets the empty map
\* and exactly one request, with its content; any other line gets no request;
\* the requests already waiting stay in order
LookupsNeverWait ==
    /\ SubSeq(workerReplies', 1, Len(Kept)) = Kept
    /\ \A i \in 0..(MaxLines - 1) :
        IF DrawnNext(i) /\ Missed(i)
        THEN /\ Cardinality({k \in 1..Len(NewlyPosted) : NewlyPosted[k].lineIndex = i}) = 1
             /\ \A k \in 1..Len(NewlyPosted) :
                    NewlyPosted[k].lineIndex = i => NewlyPosted[k].content = lines'[i + 1]
             /\ PendingEntry(i) \in syntaxCache'
             /\ \A x \in 0..MaxLen : ColorAt(syntaxCache', i, x) = ""
        ELSE \A k \in 1..Len(NewlyPosted) : NewlyPosted[k].lineIndex # i
\* the reply handled in a step replaces the cache entry of its line
ReplyStored ==
    /\ op'.name = "handleWorkerMessage"
    /\ \A e \in syntaxCache' :
          e.lineIndex = Head(workerReplies).lineIndex
              => e = ParsedEntry(e.lineIndex, Head(workerReplies).content)
    /\ CacheHas(syntaxCache', Head(workerReplies).lineIndex)

C26_WitnessAfterCleanup ==
    /\ op.name = "handleWorkerMessage" /\ ~op.result.rendered /\ isCleanedUp


(***************************************************************************)
(* Claims about saving and leaving (SpecSave).                             *)
(***************************************************************************)
\* a write completes in this step
SaveCompletes == Len(pendingSaves') < Len(pendingSaves)
\* the content of the write that completes in this step
WrittenNow(content) ==
    \E i \in 1..Len(pendingSaves) :
        /\ pendingSaves' = SubSeq(pendingSaves, 1, i - 1)
                               \o SubSeq(pendingSaves, i + 1, Len(pendingSaves))
        /\ pendingSaves[i] = content

\* C27: the promise of run() is settled at most once; an exit triggered by
\* Ctrl+S resolves it with saved = true and the document as it was joined
\* when Ctrl+S was pressed, an exit triggered by Ctrl+Q with saved = false
\* and the document joined at that key; and from the key that triggered the
\* exit on, no key changes the document.
C27_SettledOnce ==
    [][/\ Len(settled') <= 1
       /\ settled' # settled =>
            IF SaveCompletes
            THEN /\ settled'[1].saved = TRUE
                 /\ WrittenNow(settled'[1].content)
            ELSE /\ settled'[1].saved = FALSE
                 /\ settled'[1].content = Join(lines)
       /\ (isExiting \/ pendingSaves # <<>>) => lines' = lines]_vars

\* a character was typed while the write of Ctrl+S had not completed
TypedWhileSaving ==
    /\ pendingSaves # <<>>
    /\ ~isExiting
    /\ Join(lines) # pendingSaves[1]

\* the promise resolved with saved = true and a content that was not written
ResolvedUnwritten ==
    /\ Len(settled) = 1
    /\ settled[1].saved = TRUE
    /\ isDirty
    /\ pendingSaves = <<>>

\* what holds of the settlement: resolvePromise is called at most once, with
\* saved = true by a completed save and saved = false by Ctrl+Q, with the
\* document joined when it is called, and once isExiting is set the
\* document does not change
SettledOnceAtExit ==
    [][/\ Len(settled') <= 1
       /\ settled' # settled =>
            /\ settled'[1].saved = SaveCompletes
            /\ settled'[1].content = Join(lines)
            /\ isExiting' /\ ~isExiting
       /\ isExiting => (lines' = lines /\ isExiting')]_vars

\* Ctrl+Q handled in 'edit' mode: it exits with saved = false or arms
QuitInEdit ==
    /\ mode = "edit"
    /\ \/ settled' # settled /\ ~settled'[Len(settled')].saved
       \/ quitConfirm' /\ ~quitConfirm
\* Ctrl+Q handled in the Go-to-Line prompt
QuitInPrompt == mode = "goto_line" /\ mode' = "edit" /\ op'.name = "CTRL_Q"
\* an earlier Ctrl+Q armed the confirmation and its timer has not expired
Armed == quitConfirm /\ quitTimer
\* what a Ctrl+Q does by the rule: exit, or arm and do nothing else
ByTheRule ==
    IF isDirty /\ ~Armed
    THEN quitConfirm' /\ quitTimer' /\ ~isExiting' /\ settled' = settled
    ELSE isExiting' /\ settled' = Append(settled, Resolution(FALSE, lines))
\* the timer of the confirmation fires
TimerExpires == quitTimer /\ ~quitTimer'

C28_WitnessExpired ==
    /\ isDirty /\ ~quitConfirm /\ ~quitTimer /\ ~isExiting
    /\ pendingSaves = <<>>
    /\ mode = "edit"
\* Ctrl+Q closed the Go-to-Line prompt of an unchanged document
C28_WitnessPrompt ==
    /\ ~isDirty /\ ~isExiting /\ op.name = "CTRL_Q" /\ mode = "edit"


(***************************************************************************)
(* Claims about undo and redo in the editor (SpecHistory).                 *)
(***************************************************************************)
\* the last key typed or deleted a character
JustEdited == op.name \in {"type", "delete"}
\* the document and the cursor become those of state s
Restores(s) ==
    /\ lines' = s.lines
    /\ cursorX' = s.cursorX
    /\ cursorY' = s.cursorY

\* C29: a Ctrl+Z pressed right after a key that typed or deleted a character
\* restores the lines and the cursor that key found, and a Ctrl+Y pressed
\* right after an undo that restored a state brings back the lines and the
\* cursor the undo found.
C29_UndoRedoRestore ==
    [][/\ (JustEdited /\ op'.name = "undo") => Restores(op.result)
       /\ (op.name = "undo" /\ op.arg = 1 /\ op'.name = "redo")
            => Restores(op.result)]_vars

\* Ctrl+Z after typing into an unchanged document made no change
UndoneNothing ==
    /\ op.name = "undo" /\ op.arg = 1
    /\ lines = op.result.lines
    /\ Len(undoHistory) = 1
    /\ undoHistory[1].lines # lines

\* what holds of undo and redo in the editor: the state on top of the undo
\* stack after an edit is the edited document itself, so the first Ctrl+Z
\* reloads the document as it is; a Ctrl+Y right after an undo that
\* restored a state brings back what the undo found
SnapshotIsEdited ==
    /\ [](JustEdited =>
            /\ Len(undoHistory) >= 1
            /\ undoHistory[Len(undoHistory)].lines = lines)
    /\ [][(JustEdited /\ op'.name = "undo") => lines' = lines]_vars
    /\ [][(op.name = "undo" /\ op.arg = 1 /\ op'.name = "redo")
            => Restores(op.result)]_vars


(***************************************************************************)
(* Claims about the HistoryManager (SpecManager).                          *)
(***************************************************************************)
\* the i-th undo after the saves s returns the i-th newest of them
NewestFirst(s, r, i) == ~r[i].null /\ r[i].state = s[Len(s) - i + 1]

\* C30: after k saveState calls on a new HistoryManager and then undo calls
\* only, the first min(k, historyLimit) undo calls returned the saved
\* states from the newest to the oldest, every later undo returned null,
\* and an undo that returns null changes neither stack.
C30_NewestKept ==
    /\ [](op.name = "undo" =>
            LET s == op.result.saved
                r == op.result.returned
                kept == Min(Len(s), historyLimit)
            IN  \A i \in 1..Len(r) :
                    IF i <= kept THEN NewestFirst(s, r, i) ELSE r[i].null)
    /\ [][(op'.name = "undo" /\ op' # op
            /\ op'.result.returned[Len(op'.result.returned)].null)
            => (undoHistory' = undoHistory /\ redoHistory' = redoHistory)]_vars

\* three states saved with a limit of two: two undo calls returned a state,
\* the third returned null
C30_Witness ==
    /\ op.name = "undo"
    /\ historyLimit = 2
    /\ Len(op.result.saved) = 3
    /\ Len(op.result.returned) = 3
    /\ ~op.result.returned[2].null
    /\ op.result.returned[2].state = op.result.saved[2]
    /\ op.result.returned[3].null
    /\ op.result.saved[1] # op.result.saved[2]

\* the last two calls
LastCalls == op.result.log
\* the last two calls were an undo that returned a state and a redo that was
\* handed that state
UndoneThenRedone ==
    /\ Len(LastCalls) = 2
    /\ LastCalls[1].name = "undo"
    /\ ~LastCalls[1].returned.null
    /\ LastCalls[2].name = "redo"
    /\ LastCalls[2].state = LastCalls[1].returned.state

\* C31: a redo(p) that follows at once an undo(c) that returned the state p
\* returns c and leaves both stacks as they were before the undo; after a
\* saveState the redo stack is empty and a redo that follows it returns
\* null.
C31_UndoRedoInverse ==
    /\ UndoneThenRedone =>
            /\ LastCalls[2].returned = Returned_state(LastCalls[1].state)
            /\ History = LastCalls[1].before
    /\ (Len(LastCalls) >= 1 /\ LastCalls[Len(LastCalls)].name = "saveState")
            => redoHistory = <<>>
    /\ (Len(LastCalls) = 2 /\ LastCalls[1].name = "saveState"
            /\ LastCalls[2].name = "redo")
            => (LastCalls[2].returned.null /\ History = LastCalls[2].before)

\* an undo of the second of two saved states, then redo with the state it
\* returned
C31_Witness ==
    /\ UndoneThenRedone
    /\ Len(LastCalls[1].before.undoHistory) = 2
    /\ LastCalls[1].state # LastCalls[1].returned.state
    /\ Len(undoHistory) = 2
\* a saveState after an undo, then a redo that returned null
C31_WitnessSaved ==
    /\ Len(LastCalls) = 2
    /\ LastCalls[1].name = "saveState"
    /\ Len(LastCalls[1].before.redoHistory) >= 1
    /\ LastCalls[2].name = "redo"
    /\ LastCalls[2].returned.null

\* C39: after any calls of saveState, undo and redo the undo stack holds at
\* most historyLimit states, and the two stacks together hold at most
\* historyLimit states.
C39_WithinLimit ==
    /\ Len(undoHistory) <= historyLimit
    /\ Len(undoHistory) + Len(redoHistory) <= historyLimit

\* a full undo stack shared with the redo stack after undo, redo and undo
C39_Witness ==
    /\ historyLimit = 2
    /\ Len(undoHistory) = 1
    /\ Len(redoHistory) = 1
    /\ Len(LastCalls) = 2
    /\ LastCalls[1].name = "redo"
    /\ LastCalls[2].name = "undo"
    /\ ~LastCalls[1].returned.null


(***************************************************************************)
(* Claims about the selection range (SpecSelect).                          *)
(***************************************************************************)
\* position p comes no later than position q in document order
NoLater(p, q) == p.y < q.y \/ (p.y = q.y /\ p.x <= q.x)
\* the cursor as a position
CursorPosition == [x |-> cursorX, y |-> cursorY]
\* the anchor as a position
AnchorPosition == [x |-> selectionAnchor.x, y |-> selectionAnchor.y]

\* C32: getNormalizedSelection returns null without an anchor and otherwise
\* the range from the earlier to the later of anchor and cursor, and
\* isPositionInSelection(y, x, range) on such a range is true exactly when
\* start.y <= y <= end.y, x >= start.x on the start line and x < end.x on the
\* end line.
C32_HalfOpen ==
    /\ op.name = "getNormalizedSelection" =>
            LET r == op.result.range
            IN  /\ r.set = selectionAnchor.set
                /\ r.set =>
                    /\ {r.start, r.end} = {AnchorPosition, CursorPosition}
                    /\ NoLater(r.start, r.end)
    /\ op.name = "isPositionInSelection" =>
            LET r == op.result.range
                y == op.result.y
                x == op.result.x
            IN  op.result.inside <=>
                    /\ r.start.y <= y /\ y <= r.end.y
                    /\ (y = r.start.y => x >= r.start.x)
                    /\ (y = r.end.y => x < r.end.x)

\* the end position of a selection made backwards over two lines is outside
\* the selection
C32_Witness ==
    /\ op.name = "isPositionInSelection"
    /\ selectionAnchor.y > cursorY
    /\ op.result.range.end = AnchorPosition
    /\ op.result.y = selectionAnchor.y
    /\ op.result.x = selectionAnchor.x
    /\ selectionAnchor.x > 0
    /\ ~op.result.inside
\* the range of an anchor behind the cursor starts at the cursor
C32_WitnessNormalized ==
    /\ op.name = "getNormalizedSelection"
    /\ selectionAnchor.set
    /\ op.result.range.start = CursorPosition
    /\ op.result.range.end = AnchorPosition
    /\ CursorPosition # AnchorPosition


(***************************************************************************)
(* Claims about the selection anchor across edits and undo (SpecAnchor).   *)
(***************************************************************************)
\* C33: after any keys (selection, edits, undo, redo) an anchor that is set
\* is a valid position of the document, and deleteSelectedText never reads
\* a line that does not exist.
C33_AnchorValid ==
    /\ selectionAnchor.set =>
            ValidCursor(lines, selectionAnchor.x, selectionAnchor.y)
    /\ ~Crashed

\* the anchor is on a line that undo has taken away
AnchorBeyondDocument ==
    /\ selectionAnchor.set
    /\ selectionAnchor.y >= Len(lines)
    /\ op.name = "undo"
\* the anchor is beyond the end of its line after a newline
AnchorBeyondLine ==
    /\ selectionAnchor.set
    /\ selectionAnchor.y < Len(lines)
    /\ selectionAnchor.x > Len(lines[selectionAnchor.y + 1])
    /\ op.name = "newline"
\* BACKSPACE raised on the line of the anchor
RaisedOnAnchor == Crashed /\ selectionAnchor.y >= Len(lines)


(***************************************************************************)
(* Claims about single visual moves and Home / End (SpecGeom).             *)
(***************************************************************************)
\* the last position of a line whose length is a positive multiple of W
AtWrappedEnd(x, y) == ChunkBoundary(x) /\ x = LineLen(y)
\* the visual row a cursor is drawn on: render puts the caret of a cursor at
\* the end of a line after the line's last chunk
DisplayedRow(x, y) ==
    IF AtWrappedEnd(x, y) THEN RowOf(x, y) - 1 ELSE RowOf(x, y)
MovedOneRow(dy) == op.name = "moveCursorVisually" /\ op.arg = dy

\* the rule of C34 for one move by dy from the origin
OneRowStep(dy) ==
    LET from == DisplayedRow(Origin.x, Origin.y)
        edge == IF dy = 1 THEN TotalVisualRows - 1 ELSE 0
    IN  IF from = edge
        THEN BackAtOrigin
        ELSE /\ DisplayedRow(cursorX, cursorY) = from + dy
             /\ (cursorY - Origin.y) * dy \in {0, 1}

\* C34: moveCursorVisually(+1) from a valid cursor not displayed on the last
\* visual row lands on the visual row immediately below (the logical line
\* stays or grows by one), moveCursorVisually(-1) not from the first row
\* lands on the row immediately above, and on the last (first) row a move
\* down (up) leaves the cursor unchanged.
C34_OneRow ==
    /\ MovedOneRow(1) => OneRowStep(1)
    /\ MovedOneRow(-1) => OneRowStep(-1)

\* a move down on the only visual row of the document changed the cursor
DownOnLastRowMoved ==
    /\ MovedOneRow(1)
    /\ TotalVisualRows = 1
    /\ AtWrappedEnd(Origin.x, Origin.y)
    /\ ~BackAtOrigin
\* a move down from the end of a wrapped first line passed over the first
\* row of the second line
DownSkippedRow ==
    /\ MovedOneRow(1)
    /\ AtWrappedEnd(Origin.x, Origin.y)
    /\ DisplayedRow(cursorX, cursorY) = DisplayedRow(Origin.x, Origin.y) + 2
\* away from the end of a wrapped line the rule of C34 holds
OneRowAwayFromWrappedEnd ==
    /\ (MovedOneRow(1) /\ ~AtWrappedEnd(Origin.x, Origin.y)) => OneRowStep(1)
    /\ (MovedOneRow(-1) /\ ~AtWrappedEnd(Origin.x, Origin.y)) => OneRowStep(-1)


\* the chunk start of the row the origin is on
OriginChunkStart == (Origin.x \div W) * W
\* the key left the cursor on the visual row of the origin, by the row count
\* of findCurrentVisualRowIndex and by the row the caret is drawn on
SameRowAsOrigin ==
    /\ cursorY = Origin.y
    /\ RowOf(cursorX, cursorY) = RowOf(Origin.x, Origin.y)
    /\ DisplayedRow(cursorX, cursorY) = DisplayedRow(Origin.x, Origin.y)

\* C35: Home and End keep the cursor on its visual row, End pressed twice
\* gives the column of End pressed once, and Home after End gives the chunk
\* start the row had before End.
C35_HomeEndOnRow ==
    /\ op.name \in {"home", "end"} => SameRowAsOrigin
    /\ op.name = "endEnd" => cursorX = op.result
    /\ op.name = "endHome" => cursorX = OriginChunkStart

\* End from the start of a line of two full rows lands on the start of the
\* second row
EndOnNextRow ==
    /\ op.name = "end"
    /\ Origin.x = 0 /\ W > 1 /\ LineLen(cursorY) = 2 * W
    /\ cursorX = W
    /\ RowOf(cursorX, cursorY) = RowOf(Origin.x, Origin.y) + 1
    /\ DisplayedRow(cursorX, cursorY) = DisplayedRow(Origin.x, Origin.y) + 1
\* the second End went on to the end of the next row
EndTwiceFurther == op.name = "endEnd" /\ cursorX > op.result
\* Home after End gave the start of the next row
HomeAfterEndOnNextRow ==
    op.name = "endHome" /\ cursorX = OriginChunkStart + W
\* what holds: Home stays on its row by the row count of
\* findCurrentVisualRowIndex and pressed again changes nothing; End stays on
\* its row whenever the line ends inside the row
HomeOnRow ==
    /\ op.name = "home" =>
            /\ RowOf(cursorX, cursorY) = RowOf(Origin.x, Origin.y)
            /\ FindVisualRowStart(screenCols, cursorX) = cursorX
    /\ (op.name = "end" /\ LineLen(cursorY) < OriginChunkStart + W)
            => SameRowAsOrigin


(***************************************************************************)
(* Claims about the syntax cache across edits (SpecCache).                 *)
(***************************************************************************)
\* a cache entry the worker has filled
Filled(e) == ~e.pending
\* a filled entry is the parse of the text line e.lineIndex has now
Current(e, ls) ==
    /\ e.lineIndex < Len(ls)
    /\ ParseLineSyntax(e.content) = ParseLineSyntax(ls[e.lineIndex + 1])

\* C36: after an operation that changes the text or the index of a line, no
\* cache entry computed from the earlier text of a line index remains: every
\* entry the cache then holds is pending or the parse of the line's current
\* text.
C36_InvalidatedByChange ==
    [][lines' # lines =>
        \A e \in syntaxCache' : Filled(e) => Current(e, lines')]_vars

\* BACKSPACE between the brackets of a pair left the parse of the pair as
\* the entry of the line
PairDeletedEntryKept ==
    /\ op.name = "pairDeleted"
    /\ \E e \in syntaxCache :
        /\ Filled(e) /\ e.lineIndex = cursorY
        /\ Len(e.content) = Len(lines[cursorY + 1]) + 2
\* what holds: ENTER, a typed character and deleteBackward leave no filled
\* entry
InvalidatingKeysClear ==
    op.name \in {"char", "newline", "deleteBackward"} =>
        \A e \in syntaxCache : ~Filled(e)

\* a filled entry that holds a colour
Coloured(e) ==
    Filled(e) /\ \E k \in 1..Len(e.content) : ParseLineSyntax(e.content)[k] # ""
WorkerIdle == workerReplies = <<>>

\* C37: when no request is outstanding, every non-empty cache entry for
\* line i is the parse of the current text of line i.
C37_IdleCacheCurrent ==
    WorkerIdle => \A e \in syntaxCache : Coloured(e) => Current(e, lines)

\* the last reply outstanding has been handled, and the reply for a line
\* that ENTER emptied while the request was in flight is that line's entry
StaleReplyKept ==
    /\ WorkerIdle
    /\ op.name = "handleWorkerMessage"
    /\ Len(lines) = 2 /\ lines[1] = <<>>
    /\ \E e \in syntaxCache :
        Coloured(e) /\ e.lineIndex = 0 /\ e.content = lines[2]


(***************************************************************************)
(* Claims about the file a save has written (SpecSave).                    *)
(***************************************************************************)
\* the promise has resolved with saved = true
ResolvedSaved == \E k \in 1..Len(settled) : settled[k].saved
\* the text the last successful write stored
LastStored == stored[Len(stored)]

\* C38: when the promise resolves with saved = true, a write of the file has
\* succeeded and the content returned is the text that write stored, also
\* when keys are handled while the write is in flight and when the write
\* fails.
C38_SavedIsStored ==
    \A k \in 1..Len(settled) :
        settled[k].saved =>
            /\ stored # <<>>
            /\ settled[k].content = LastStored

\* the promise resolved with saved = true and no write has succeeded
ResolvedAfterFailedWrite ==
    /\ ResolvedSaved
    /\ stored = <<>>
    /\ pendingSaves = <<>>
\* the promise resolved with saved = true and a content that differs from
\* what the only write stored
ResolvedOtherThanStored ==
    /\ ResolvedSaved
    /\ Len(stored) = 1
    /\ pendingSaves = <<>>
    /\ settled[1].content # LastStored


(***************************************************************************)
(* Claims about cutLine across other keys (Spec).                          *)
(***************************************************************************)
\* the clipboard command of a cutLine() completes in this step
CutCompletes == Len(pendingCuts') < Len(pendingCuts)
\* the text that cutLine() copied to the clipboard
CopiedText == Head(pendingCuts)
\* the step removes a line that holds the copied text, leaving the single
\* empty line when it was the only one
RemovesCopiedLine ==
    \E i \in 0..(Len(lines) - 1) :
        /\ lines[i + 1] = CopiedText
        /\ lines' = IF Len(lines) = 1 THEN << <<>> >> ELSE RemoveLine(lines, i)
\* the document has a line and the cursor is at column 0 of a line it has
CursorAtLineStart ==
    /\ Len(lines') >= 1
    /\ cursorX' = 0
    /\ cursorY' >= 0 /\ cursorY' < Len(lines')

\* C40: cutLine removes exactly the line whose text it copied to the
\* clipboard, also when other keys are handled while the clipboard command
\* is in flight; afterwards the document has at least one line and the
\* cursor is at column 0 of an existing line.
C40_CutsCopiedLine ==
    [][CutCompletes => (RemovesCopiedLine /\ CursorAtLineStart)]_vars

\* what holds of a completed cutLine: one line fewer (or the single empty
\* line), and the cursor at column 0 of an existing line
CutLeavesCursorAtLineStart ==
    [][CutCompletes =>
        /\ CursorAtLineStart
        /\ Len(lines') = Max(1, Len(lines) - 1)]_vars

\* a cutLine() in flight whose copied text is not the text of the line the
\* cursor is on now, nor of any line but one
CursorLeftCopiedLine ==
    /\ pendingCuts # <<>>
    /\ Len(lines) = 2
    /\ lines[cursorY + 1] # CopiedText
    /\ \E i \in 1..Len(lines) : lines[i] = CopiedText

====
